---- MODULE Spec2Model ----
(***************************************************************************)
(* Model of the portfolio analysis utilities of fund-growth-insight:       *)
(*   - the CSV ingestion (parseCSV, parseCSVWithValidation),               *)
(*   - the analysis engines (overall metrics, annual returns, risk         *)
(*     metrics, benchmark comparisons, drawdown analysis),                 *)
(*   - the exported calculateCorrelation.                                  *)
(*                                                                         *)
(* Texts are TLA+ strings handled character by character.  JavaScript      *)
(* numbers are modelled as rationals plus the special values NaN and       *)
(* +/-Infinity: exactly in the parser, the returns and the drawdowns, and  *)
(* with binary floating-point rounding (of MantissaBits bits for the 53 of *)
(* a double) in the correlation, beta and tracking error, whose guards     *)
(* compare a computed sum with 0.                                          *)
(***************************************************************************)
EXTENDS Integers, Sequences, FiniteSets, TLC

VARIABLES
    dateRollover,   \* engine-dependent: new Date('2021-02-30') rolls over (TRUE) or is invalid (FALSE)
    csvText,        \* the text handed to parseCSV
    ppc,            \* position of the parser: "start", "rows", "final", "parsed", "done", "off"
    lines,          \* csvText.trim().split('\n')
    rowIdx,         \* index (0-based) of the next element of processedRows
    data,           \* the accepted records, in input order
    errors,         \* collected fatal error messages
    warnings,       \* collected warning messages
    outcome,        \* what parseCSV did: [kind, message, records]
    epc,            \* position of the analysis: "idle", "drawdown" (in its loop), "off"
    dd,             \* the locals of calculateDrawdownAnalysis while its loop runs
    ret,            \* the function called last and the value it returned: [fn, value]
    mpc,            \* position of the market-indices code: in a fetch, a look-back, an export, or "off"
    mx              \* the locals and the component state of the market-indices code

parserVars == <<csvText, ppc, lines, rowIdx, data, errors, warnings, outcome>>

engineVars == <<epc, dd, ret>>

marketVars == <<mpc, mx>>

----------------------------------------------------------------------------
(* Bounds of the model *)

MaxRows == 3

----------------------------------------------------------------------------
(* Strings *)

Ch(s, i) == SubSeq(s, i, i)

Digits == {"0", "1", "2", "3", "4", "5", "6", "7", "8", "9"}

WhiteSpace == {" ", "\t", "\n", "\r"}

DigitVal(c) ==
    CASE c = "0" -> 0 [] c = "1" -> 1 [] c = "2" -> 2 [] c = "3" -> 3
      [] c = "4" -> 4 [] c = "5" -> 5 [] c = "6" -> 6 [] c = "7" -> 7
      [] c = "8" -> 8 [] c = "9" -> 9

RECURSIVE TrimStart(_)
TrimStart(s) ==
    IF Len(s) > 0 /\ Ch(s, 1) \in WhiteSpace THEN TrimStart(Tail(s)) ELSE s

RECURSIVE TrimEnd(_)
TrimEnd(s) ==
    IF Len(s) > 0 /\ Ch(s, Len(s)) \in WhiteSpace
    THEN TrimEnd(SubSeq(s, 1, Len(s) - 1))
    ELSE s

\* String.prototype.trim
Trim(s) == TrimEnd(TrimStart(s))

\* position of the first occurrence of the character sep in s at or after i, 0 if none
RECURSIVE IndexFrom(_, _, _)
IndexFrom(s, sep, i) ==
    IF i > Len(s) THEN 0
    ELSE IF Ch(s, i) = sep THEN i
    ELSE IndexFrom(s, sep, i + 1)

\* String.prototype.includes for a one-character needle
Includes(s, c) == IndexFrom(s, c, 1) # 0

\* String.prototype.split for a one-character separator
RECURSIVE Split(_, _)
Split(s, sep) ==
    LET p == IndexFrom(s, sep, 1)
    IN IF p = 0 THEN <<s>>
       ELSE <<SubSeq(s, 1, p - 1)>> \o Split(SubSeq(s, p + 1, Len(s)), sep)

\* Array.prototype.join
RECURSIVE Join(_, _)
Join(parts, sep) ==
    IF Len(parts) = 0 THEN ""
    ELSE IF Len(parts) = 1 THEN parts[1]
    ELSE parts[1] \o sep \o Join(Tail(parts), sep)

\* the sequence s without its i-th element
RemoveAt(s, i) == SubSeq(s, 1, i - 1) \o SubSeq(s, i + 1, Len(s))

\* the concatenation of a sequence of sequences
RECURSIVE Concat(_)
Concat(ss) == IF Len(ss) = 0 THEN <<>> ELSE Head(ss) \o Concat(Tail(ss))

\* String.prototype.replace(/[(),\s]/g, '')
RECURSIVE StripAccounting(_)
StripAccounting(s) ==
    IF Len(s) = 0 THEN ""
    ELSE IF Ch(s, 1) \in ({"(", ")", ","} \cup WhiteSpace)
         THEN StripAccounting(Tail(s))
         ELSE Ch(s, 1) \o StripAccounting(Tail(s))

\* the longest prefix of s made of digits
RECURSIVE DigitPrefix(_)
DigitPrefix(s) ==
    IF Len(s) > 0 /\ Ch(s, 1) \in Digits
    THEN Ch(s, 1) \o DigitPrefix(Tail(s))
    ELSE ""

\* the value of a string of digits
RECURSIVE DigitsValue(_)
DigitsValue(s) ==
    IF Len(s) = 0 THEN 0
    ELSE 10 * DigitsValue(SubSeq(s, 1, Len(s) - 1)) + DigitVal(Ch(s, Len(s)))

RECURSIVE Pow10(_)
Pow10(k) == IF k = 0 THEN 1 ELSE 10 * Pow10(k - 1)

\* String.prototype.padStart(2, '0')
PadStart2(s) == IF Len(s) >= 2 THEN s ELSE IF Len(s) = 1 THEN "0" \o s ELSE "00"

----------------------------------------------------------------------------
(* JavaScript numbers: exact rationals n/d (d > 0, lowest terms), NaN,     *)
(* +Infinity and -Infinity (n = 1 or -1), and undefined for an absent      *)
(* optional number.  The results of Math.sqrt, Math.pow and of the sums of *)
(* squares are finite numbers whose magnitude is not modelled ("irr"):     *)
(* only their sign n is kept (1, -1, or 0 when the sign is not known); an  *)
(* "irr" of sign 1 or -1 is not zero.                                      *)

RECURSIVE GCD(_, _)
GCD(a, b) == IF b = 0 THEN a ELSE GCD(b, a % b)

Abs(n) == IF n < 0 THEN -n ELSE n

Sign(n) == IF n < 0 THEN -1 ELSE IF n > 0 THEN 1 ELSE 0

Fin(n, d) ==
    LET g == GCD(Abs(n), Abs(d))
        s == IF d < 0 THEN -1 ELSE 1
    IN [k |-> "fin", n |-> (s * n) \div g, d |-> (s * d) \div g]

\* the largest numerator and denominator kept exactly
ExactLimit == 30000

NaN == [k |-> "nan", n |-> 0, d |-> 1]

Inf(s) == [k |-> "inf", n |-> s, d |-> 1]

Irr(s) == [k |-> "irr", n |-> s, d |-> 1]

\* NaN or an infinity, which of them not being modelled
NonFin == [k |-> "nonfin", n |-> 0, d |-> 1]

Undefined == [k |-> "undef", n |-> 0, d |-> 1]

Num(n) == Fin(n, 1)

\* a rational beyond the range kept exactly: a finite number of that sign
Bounded(x) == IF Abs(x.n) > ExactLimit \/ x.d > ExactLimit THEN Irr(Sign(x.n)) ELSE x

IsFin(x) == x.k \in {"fin", "irr"}

IsZero(x) == x.k = "fin" /\ x.n = 0

\* sign of a number that is not NaN
SignOf(x) == Sign(x.n)

JsNeg(x) ==
    CASE x.k = "fin" -> Fin(-x.n, x.d)
      [] x.k = "inf" -> Inf(-x.n)
      [] x.k = "irr" -> Irr(-x.n)
      [] x.k = "nonfin" -> NonFin
      [] x.k = "nan" -> NaN

JsAdd(x, y) ==
    CASE x.k = "fin" /\ y.k = "fin" -> Bounded(Fin(x.n * y.d + y.n * x.d, x.d * y.d))
      [] x.k = "inf" /\ y.k \in {"fin", "irr"} -> x
      [] x.k \in {"fin", "irr"} /\ y.k = "inf" -> y
      [] x.k = "inf" /\ y.k = "inf" -> IF x.n = y.n THEN x ELSE NaN
      [] x.k = "irr" /\ y.k = "fin" -> IF y.n = 0 THEN x ELSE Irr(IF SignOf(x) = SignOf(y) THEN SignOf(x) ELSE 0)
      [] x.k = "fin" /\ y.k = "irr" -> IF x.n = 0 THEN y ELSE Irr(IF SignOf(x) = SignOf(y) THEN SignOf(x) ELSE 0)
      [] x.k = "irr" /\ y.k = "irr" -> Irr(IF SignOf(x) = SignOf(y) THEN SignOf(x) ELSE 0)
      [] x.k = "nonfin" \/ y.k = "nonfin" -> NonFin
      [] x.k = "nan" \/ y.k = "nan" -> NaN

JsSub(x, y) == JsAdd(x, JsNeg(y))

JsMul(x, y) ==
    CASE x.k = "fin" /\ y.k = "fin" -> Bounded(Fin(x.n * y.n, x.d * y.d))
      [] x.k \in {"fin", "inf"} /\ y.k \in {"fin", "inf"} /\ "inf" \in {x.k, y.k} ->
            IF SignOf(x) * SignOf(y) = 0 THEN NaN ELSE Inf(SignOf(x) * SignOf(y))
      [] x.k = "irr" /\ y.k = "fin" -> IF y.n = 0 THEN Num(0) ELSE Irr(SignOf(x) * SignOf(y))
      [] x.k = "fin" /\ y.k = "irr" -> IF x.n = 0 THEN Num(0) ELSE Irr(SignOf(x) * SignOf(y))
      [] x.k = "irr" /\ y.k = "irr" -> Irr(SignOf(x) * SignOf(y))
      [] x.k = "irr" /\ y.k = "inf" -> IF x.n = 0 THEN NonFin ELSE Inf(SignOf(x) * SignOf(y))
      [] x.k = "inf" /\ y.k = "irr" -> IF y.n = 0 THEN NonFin ELSE Inf(SignOf(x) * SignOf(y))
      [] x.k = "nonfin" \/ y.k = "nonfin" -> NonFin
      [] x.k = "nan" \/ y.k = "nan" -> NaN

\* the operator / : a zero denominator does not throw, it yields NaN or an infinity
JsDiv(x, y) ==
    CASE x.k = "fin" /\ y.k = "fin" ->
            IF y.n # 0 THEN Bounded(Fin(x.n * y.d, x.d * y.n))
            ELSE IF x.n = 0 THEN NaN
            ELSE Inf(Sign(x.n))
      [] x.k \in {"fin", "irr"} /\ y.k = "inf" -> Num(0)
      [] x.k = "inf" /\ y.k = "fin" -> Inf(x.n * (IF y.n < 0 THEN -1 ELSE 1))
      [] x.k = "inf" /\ y.k = "inf" -> NaN
      [] x.k = "fin" /\ y.k = "irr" /\ y.n # 0 ->
            IF x.n = 0 THEN Num(0) ELSE Irr(SignOf(x) * SignOf(y))
      [] x.k = "irr" /\ y.k = "fin" /\ y.n # 0 -> Irr(SignOf(x) * SignOf(y))
      [] x.k = "irr" /\ y.k = "irr" /\ y.n # 0 -> Irr(SignOf(x) * SignOf(y))
      [] x.k = "inf" /\ y.k = "irr" /\ y.n # 0 -> Inf(SignOf(x) * SignOf(y))
      [] x.k = "nonfin" /\ y.k \in {"fin", "irr"} /\ y.n # 0 -> NonFin
      [] x.k = "nan" \/ y.k = "nan" -> NaN

\* the operators <, >, <=, === on numbers: every comparison with NaN is false
JsLt(x, y) ==
    CASE x.k = "fin" /\ y.k = "fin" -> x.n * y.d < y.n * x.d
      [] x.k = "inf" /\ y.k = "fin" -> x.n < 0
      [] x.k = "fin" /\ y.k = "inf" -> y.n > 0
      [] x.k = "inf" /\ y.k = "inf" -> x.n < y.n
      [] x.k = "nan" \/ y.k = "nan" -> FALSE

JsGt(x, y) == JsLt(y, x)

JsEq(x, y) == x.k \in {"fin", "inf"} /\ x = y

JsLe(x, y) == JsLt(x, y) \/ JsEq(x, y)

\* Math.sqrt of a number that is not negative
JsSqrt(x) ==
    CASE x.k = "fin" /\ x.n = 0 -> Num(0)
      [] x.k = "fin" /\ x.n > 0 -> Irr(1)
      [] x.k = "irr" /\ x.n = 1 -> Irr(1)
      [] x.k = "inf" /\ x.n = 1 -> x
      [] x.k = "nan" \/ x.n < 0 -> NaN

\* The statistics of the correlation and of the benchmark comparison test
\* computed floating-point values against 0, so their arithmetic is modelled
\* with its rounding: every result is rounded to MantissaBits significant
\* bits, to nearest, ties to even (the numbers of the code have 53 bits).
MantissaBits == 7

RECURSIVE Pow2(_)
Pow2(k) == IF k = 0 THEN 1 ELSE 2 * Pow2(k - 1)

\* the mantissas are the integers of MantissaLow .. MantissaHigh - 1
MantissaLow == Pow2(MantissaBits - 1)

MantissaHigh == Pow2(MantissaBits)

\* a / b (both positive) as (a' / b') * up / down with a' / b' in [lo, hi),
\* where hi = base * lo and base is 2, or 4 for a square (the fraction is
\* divided or multiplied by base, a common factor being cancelled)
RECURSIVE Normalize(_, _, _, _, _, _, _)
Normalize(base, lo, hi, a, b, up, down) ==
    IF a \div hi >= b
    THEN (IF a % base = 0
          THEN Normalize(base, lo, hi, a \div base, b, 2 * up, down)
          ELSE Normalize(base, lo, hi, a, base * b, 2 * up, down))
    ELSE IF a \div lo < b
    THEN (IF b % base = 0
          THEN Normalize(base, lo, hi, a, b \div base, up, 2 * down)
          ELSE Normalize(base, lo, hi, base * a, b, up, 2 * down))
    ELSE [a |-> a, b |-> b, up |-> up, down |-> down]

\* the integer nearest to a / b, a half going to the even one
RoundHalfEven(a, b) ==
    IF 2 * (a % b) > b \/ (2 * (a % b) = b /\ (a \div b) % 2 = 1)
    THEN (a \div b) + 1
    ELSE a \div b

RoundScaled(s, z) == Fin(s * RoundHalfEven(z.a, z.b) * z.up, z.down)

RECURSIVE IsPow2(_)
IsPow2(d) == d = 1 \/ (d % 2 = 0 /\ IsPow2(d \div 2))

\* x needs no rounding: it has at most MantissaBits significant bits
IsFloat(x) == x.k # "fin" \/ (Abs(x.n) < MantissaHigh /\ IsPow2(x.d))

\* the floating-point number nearest to x
Fl(x) ==
    IF IsFloat(x) THEN x
    ELSE RoundScaled(Sign(x.n), Normalize(2, MantissaLow, MantissaHigh, Abs(x.n), x.d, 1, 1))

Max(a, b) == IF a > b THEN a ELSE b

\* the number of bits of the natural number n
RECURSIVE BitLen(_)
BitLen(n) == IF n = 0 THEN 0 ELSE 1 + BitLen(n \div 2)

\* the binary order of magnitude of a floating-point number that is not 0
Magnitude(x) == BitLen(Abs(x.n)) - BitLen(x.d)

\* The operators +, -, *, / on floating-point numbers: the exact result,
\* rounded; a NaN, an infinity or an unmodelled magnitude is handled as above.
\* In a sum, a term too small to change the rounded result is absorbed.
FlAdd(x, y) ==
    IF x.k = "fin" /\ y.k = "fin"
    THEN IF x.n = 0 THEN y
         ELSE IF y.n = 0 THEN x
         ELSE IF Magnitude(x) - Magnitude(y) >= MantissaBits + 2 THEN x
         ELSE IF Magnitude(y) - Magnitude(x) >= MantissaBits + 2 THEN y
         ELSE Fl(Fin(x.n * (Max(x.d, y.d) \div x.d) + y.n * (Max(x.d, y.d) \div y.d),
                     Max(x.d, y.d)))
    ELSE JsAdd(x, y)

FlSub(x, y) == FlAdd(x, JsNeg(y))

\* r times the power of two up / down; beyond the range kept exactly the
\* result is a finite number of that sign
ScaleBy(r, up, down) ==
    IF r.k # "fin" THEN r
    ELSE IF BitLen(Abs(r.n)) + BitLen(up) > 30 \/ BitLen(r.d) + BitLen(down) > 30
    THEN Irr(Sign(r.n))
    ELSE Fin(r.n * up, r.d * down)

\* the largest power of two that divides n
RECURSIVE TwoPart(_)
TwoPart(n) == IF n # 0 /\ n % 2 = 0 THEN 2 * TwoPart(n \div 2) ELSE 1

FlMul(x, y) ==
    IF x.k = "fin" /\ y.k = "fin"
    THEN ScaleBy(ScaleBy(Fl(Num((x.n \div TwoPart(x.n)) * (y.n \div TwoPart(y.n)))),
                         TwoPart(x.n), x.d),
                 TwoPart(y.n), y.d)
    ELSE JsMul(x, y)

FlDiv(x, y) ==
    IF x.k = "fin" /\ y.k = "fin" /\ y.n # 0
    THEN ScaleBy(Fl(Fin(x.n, y.n)), y.d, x.d)
    ELSE JsDiv(x, y)

\* the integer part of the square root of a / b, known to lie in lo..hi
FloorSqrt(a, b, lo, hi) == CHOOSE m \in lo..hi : m * m * b <= a /\ a < (m + 1) * (m + 1) * b

\* the integer nearest to the square root of a / b, whose integer part is m
RoundSqrt(a, b, m) ==
    IF 4 * a > (2 * m + 1) * (2 * m + 1) * b
       \/ (4 * a = (2 * m + 1) * (2 * m + 1) * b /\ m % 2 = 1)
    THEN m + 1
    ELSE m

SqrtScaled(z) ==
    Fin(RoundSqrt(z.a, z.b, FloorSqrt(z.a, z.b, MantissaLow, MantissaHigh - 1))
        * z.up,
        z.down)

\* Math.sqrt, rounded
FlSqrt(x) ==
    IF x.k = "fin" /\ x.n > 0
    THEN SqrtScaled(Normalize(4, MantissaLow * MantissaLow, MantissaHigh * MantissaHigh,
                              x.n, x.d, 1, 1))
    ELSE JsSqrt(x)

\* an array of numbers: each is a floating-point number
RECURSIVE Floats(_)
Floats(values) ==
    IF Len(values) = 0 THEN <<>>
    ELSE Append(Floats(SubSeq(values, 1, Len(values) - 1)), Fl(values[Len(values)]))

\* Array.prototype.reduce((a, b) => a + b, 0)
RECURSIVE FlSum(_)
FlSum(xs) ==
    IF Len(xs) = 0 THEN Num(0)
    ELSE FlAdd(FlSum(SubSeq(xs, 1, Len(xs) - 1)), xs[Len(xs)])

\* Number.prototype.toFixed(f) read back with Number(): the nearest multiple
\* of 10^-f, halves away from zero
ToFixed(x, f) ==
    IF x.k # "fin" THEN x   \* the rounding of an unmodelled magnitude is not modelled
    ELSE LET p == Pow10(f)
             a == Abs(x.n) * p
             q == (2 * a + x.d) \div (2 * x.d)
         IN Fin(Sign(x.n) * q, p)

\* Math.ceil
JsCeil(x) ==
    IF x.k # "fin" THEN x
    ELSE Num(-((-x.n) \div x.d))

----------------------------------------------------------------------------
(* Built-in conversions between strings and numbers *)

\* the sign of a numeric literal and the literal without its sign
SignFactor(t) == IF Len(t) > 0 /\ Ch(t, 1) = "-" THEN -1 ELSE 1

Unsigned(t) == IF Len(t) > 0 /\ Ch(t, 1) \in {"-", "+"} THEN Tail(t) ELSE t

IntegerLiteral(sg, ds) == IF Len(ds) = 0 THEN NaN ELSE Num(sg * DigitsValue(ds))

ParseIntTrimmed(t) == IntegerLiteral(SignFactor(t), DigitPrefix(Unsigned(t)))

\* parseInt(s) without radix, for decimal input (no 0x prefix is modelled)
ParseInt(s) == ParseIntTrimmed(TrimStart(s))

\* the digits of the fraction part that starts the text r, "" if none
FractionDigits(r) == IF Len(r) > 0 /\ Ch(r, 1) = "." THEN DigitPrefix(Tail(r)) ELSE ""

\* the value of the literal of sign sg, integer digits ip and fraction digits
\* fp that starts the unsigned text u
DecimalLiteral(sg, u, ip, fp) ==
    IF Len(ip) = 0 /\ Len(fp) = 0
    THEN IF Len(u) >= 8 /\ SubSeq(u, 1, 8) = "Infinity" THEN Inf(sg) ELSE NaN
    ELSE Fin(sg * (DigitsValue(ip) * Pow10(Len(fp)) + DigitsValue(fp)), Pow10(Len(fp)))

ParseFloatDigits(sg, u, ip) ==
    DecimalLiteral(sg, u, ip, FractionDigits(SubSeq(u, Len(ip) + 1, Len(u))))

ParseFloatUnsigned(sg, u) == ParseFloatDigits(sg, u, DigitPrefix(u))

ParseFloatTrimmed(t) == ParseFloatUnsigned(SignFactor(t), Unsigned(t))

\* parseFloat(s): the longest decimal-literal prefix (sign, digits, fraction);
\* an exponent part is not modelled
ParseFloat(s) == ParseFloatTrimmed(TrimStart(s))

\* the number of decimals of a rational whose denominator divides a power of 10
RECURSIVE DecimalsOf(_)
DecimalsOf(d) == IF d = 1 THEN 0 ELSE 1 + DecimalsOf(d \div GCD(d, 10))

\* s left-padded with zeros to length k
RECURSIVE ZeroPad(_, _)
ZeroPad(s, k) == IF Len(s) >= k THEN s ELSE ZeroPad("0" \o s, k)

\* the decimal notation of a / d with kk decimals
DecimalString(neg, a, d, kk) ==
    (IF neg THEN "-" ELSE "")
    \o ToString(a \div d)
    \o (IF kk = 0 THEN "" ELSE "." \o ZeroPad(ToString(((a % d) * Pow10(kk)) \div d), kk))

\* Number to string, as in a template literal `${x}` (decimal rationals only)
NumToString(x) ==
    CASE x.k = "nan" -> "NaN"
      [] x.k = "inf" -> IF x.n > 0 THEN "Infinity" ELSE "-Infinity"
      [] x.k = "undef" -> "undefined"
      [] OTHER -> DecimalString(x.n < 0, Abs(x.n), x.d, DecimalsOf(x.d))

----------------------------------------------------------------------------
(* Dates: new Date(s) for a date-only string.  The time value is kept in   *)
(* whole days since 1970-01-01 (date-only ISO strings are UTC midnights).  *)

IsLeap(y) == (y % 4 = 0 /\ y % 100 # 0) \/ y % 400 = 0

DaysInMonth(y, m) ==
    IF m = 2 THEN (IF IsLeap(y) THEN 29 ELSE 28)
    ELSE IF m \in {4, 6, 9, 11} THEN 30
    ELSE 31

\* days from 1970-01-01 to the civil date y-m-d; a day beyond the end of the
\* month counts on into the next month
DaysFromCivil(y, m, d) ==
    LET yy  == IF m <= 2 THEN y - 1 ELSE y
        era == yy \div 400
        yoe == yy - era * 400
        mp  == IF m > 2 THEN m - 3 ELSE m + 9
        doy == (153 * mp + 2) \div 5 + d - 1
        doe == yoe * 365 + yoe \div 4 - yoe \div 100 + doy
    IN era * 146097 + doe - 719468

AllDigits(s) == \A i \in 1..Len(s) : Ch(s, i) \in Digits

IsoShape(s) ==
    /\ Len(s) = 10
    /\ AllDigits(SubSeq(s, 1, 4))
    /\ Ch(s, 5) = "-"
    /\ AllDigits(SubSeq(s, 6, 7))
    /\ Ch(s, 8) = "-"
    /\ AllDigits(SubSeq(s, 9, 10))

\* the time value in days of the date y-m-d
DateValue(y, m, d) ==
    IF m < 1 \/ m > 12 \/ d < 1 \/ d > 31 THEN NaN
    ELSE IF d > DaysInMonth(y, m) /\ ~dateRollover THEN NaN
    ELSE Num(DaysFromCivil(y, m, d))

\* new Date(s).getTime() in days.  A string that is not YYYY-MM-DD is an
\* invalid date; a day of 29..31 that the month does not have is invalid by
\* the language standard and rolls over into the next month in V8.
NewDate(s) ==
    IF ~IsoShape(s) THEN NaN
    ELSE DateValue(DigitsValue(SubSeq(s, 1, 4)), DigitsValue(SubSeq(s, 6, 7)),
                   DigitsValue(SubSeq(s, 9, 10)))

\* a real calendar date in canonical YYYY-MM-DD form
IsCanonicalDate(s) ==
    /\ IsoShape(s)
    /\ LET y == DigitsValue(SubSeq(s, 1, 4))
           m == DigitsValue(SubSeq(s, 6, 7))
           d == DigitsValue(SubSeq(s, 9, 10))
       IN m \in 1..12 /\ d \in 1..DaysInMonth(y, m)

----------------------------------------------------------------------------
(* parseCSVWithValidation: one iteration of processedRows.forEach *)

RowLabel(lineNumber) == "Row " \o ToString(lineNumber) \o ": "

\* line.split(',').map(v => v.trim())
RowValues(line) ==
    LET raw == Split(line, ",")
    IN [i \in 1..Len(raw) |-> Trim(raw[i])]

\* the DD/MM/YYYY branch, the three parts being parsed
SlashDate(day, month, year, dateValue, lineNumber) ==
    IF \/ JsLt(day, Num(1)) \/ JsGt(day, Num(31))
       \/ JsLt(month, Num(1)) \/ JsGt(month, Num(12))
       \/ JsLt(year, Num(1900)) \/ JsGt(year, Num(2100))
    THEN [ok |-> FALSE, date |-> "",
          error |-> RowLabel(lineNumber) \o "Invalid date values in '" \o dateValue \o "'"]
    ELSE [ok |-> TRUE,
          date |-> NumToString(year) \o "-" \o PadStart2(NumToString(month))
                   \o "-" \o PadStart2(NumToString(day)),
          error |-> ""]

\* the DD/MM/YYYY branch, the value being split at "/"
SlashParts(dateParts, dateValue, lineNumber) ==
    IF Len(dateParts) # 3
    THEN [ok |-> FALSE, date |-> "",
          error |-> RowLabel(lineNumber) \o "Invalid date format '" \o dateValue
                    \o "' (expected DD/MM/YYYY)"]
    ELSE SlashDate(ParseInt(dateParts[1]), ParseInt(dateParts[2]), ParseInt(dateParts[3]),
                   dateValue, lineNumber)

\* the date section of the row: [ok, date, error]
ParseRowDate(dateValue, lineNumber) ==
    IF dateValue = ""
    THEN [ok |-> FALSE, date |-> "",
          error |-> RowLabel(lineNumber) \o "Date is required"]
    ELSE IF Includes(dateValue, "/")
    THEN SlashParts(Split(dateValue, "/"), dateValue, lineNumber)
    ELSE IF Includes(dateValue, "-")
    THEN IF NewDate(dateValue).k = "nan"
         THEN [ok |-> FALSE, date |-> "",
               error |-> RowLabel(lineNumber) \o "Invalid ISO date format '" \o dateValue \o "'"]
         ELSE [ok |-> TRUE, date |-> dateValue, error |-> ""]
    ELSE [ok |-> FALSE, date |-> "",
          error |-> RowLabel(lineNumber) \o "Unrecognized date format '" \o dateValue
                    \o "' (supported: DD/MM/YYYY, YYYY-MM-DD)"]

\* the result of parseNumericValue for a non-empty value, parseFloat being done
NumericResult(parsed, isNegative, value, fieldName, lineNumber) ==
    IF parsed.k = "nan"
    THEN [num |-> Num(0),
          warns |-> <<RowLabel(lineNumber) \o "Invalid " \o fieldName \o " '"
                      \o value \o "', using 0">>]
    ELSE [num |-> IF isNegative THEN JsNeg(parsed) ELSE parsed, warns |-> <<>>]

\* parseNumericValue: [num, warns]
ParseNumericValue(value, fieldName, lineNumber) ==
    IF value = "" THEN [num |-> Num(0), warns |-> <<>>]
    ELSE NumericResult(ParseFloat(StripAccounting(value)), Includes(value, "("),
                       value, fieldName, lineNumber)

FieldNames ==
    <<"SHA", "SHE", "CSI300", "shares", "share value", "gain/loss", "daily gain",
      "market value", "principle">>

\* as ShareValueRejected, a share value of 0 being let through
ShareValueRejected_ZeroAccepted(shareValue) == JsLt(shareValue, Num(0))

\* the validation of the essential field: shareValue <= 0 skips the row
ShareValueRejected(shareValue) == JsLe(shareValue, Num(0))

\* the validation of the row and the push of the record, f being the nine
\* parsed fields in order
ValidateRow(acc, f, formattedDate, lineNumber) ==
    IF ShareValueRejected(f[5].num)
    THEN [acc EXCEPT !.warnings = acc.warnings \o Concat([i \in 1..9 |-> f[i].warns]) \o
             <<RowLabel(lineNumber) \o "Share value must be positive ("
               \o NumToString(f[5].num) \o "), skipping row">>]
    ELSE [data |-> Append(acc.data,
                     [date |-> formattedDate, sha |-> f[1].num, she |-> f[2].num,
                      csi300 |-> f[3].num, shares |-> f[4].num, shareValue |-> f[5].num,
                      gainLoss |-> f[6].num, dailyGain |-> f[7].num,
                      marketValue |-> f[8].num, principle |-> f[9].num]),
          errors |-> acc.errors,
          warnings |-> acc.warnings \o Concat([i \in 1..9 |-> f[i].warns]) \o
             (IF JsLt(f[4].num, Num(0))
              THEN <<RowLabel(lineNumber) \o "Shares cannot be negative ("
                     \o NumToString(f[4].num) \o ")">>
              ELSE <<>>)]

\* the numeric section of the row, the date being accepted: the nine fields
\* are parsed in order, then shareValue and shares are validated
ParseRowNumbers(acc, values, formattedDate, lineNumber) ==
    ValidateRow(acc,
                [i \in 1..9 |-> ParseNumericValue(values[i + 1], FieldNames[i], lineNumber)],
                formattedDate, lineNumber)

\* as OnInsufficientColumns, the bad row discarding the records accepted so far
OnInsufficientColumns_DropsBatch(acc, values, lineNumber) ==
    [acc EXCEPT !.data = <<>>,
                !.errors = Append(acc.errors, RowLabel(lineNumber)
                                  \o "Insufficient columns (expected 10, got "
                                  \o ToString(Len(values)) \o ")")]

\* a row of fewer than 10 fields: one error is collected, the row is left
OnInsufficientColumns(acc, values, lineNumber) ==
    [acc EXCEPT !.errors =
        Append(acc.errors, RowLabel(lineNumber) \o "Insufficient columns (expected 10, got "
                           \o ToString(Len(values)) \o ")")]

\* the row once its date section is done
AfterRowDate(acc, dr, values, lineNumber) ==
    IF ~dr.ok
    THEN [acc EXCEPT !.errors = Append(acc.errors, dr.error)]
    ELSE ParseRowNumbers(acc, values, dr.date, lineNumber)

\* the row once it is split into trimmed values
ProcessValues(acc, line, values, lineNumber) ==
    IF Trim(line) = "" \/ \A i \in 1..Len(values) : values[i] = ""
    THEN [acc EXCEPT !.warnings =
             Append(acc.warnings, RowLabel(lineNumber) \o "Empty row skipped")]
    ELSE IF Len(values) < 10
    THEN OnInsufficientColumns(acc, values, lineNumber)
    ELSE AfterRowDate(acc, ParseRowDate(values[1], lineNumber), values, lineNumber)

\* the callback of processedRows.forEach; acc = [data, errors, warnings]
ProcessRow(acc, line, lineNumber) == ProcessValues(acc, line, RowValues(line), lineNumber)

\* the final validation and the chronological check, after the last row
IsChronological(records) ==
    \A i \in 2..Len(records) :
        ~JsLt(NewDate(records[i].date), NewDate(records[i - 1].date))

\* as FinalValidation, without the synthesized 'no valid data' error
FinalValidation_NoSynthesizedError(acc) ==
    [data |-> acc.data,
     errors |-> acc.errors,
     warnings |-> IF Len(acc.data) > 1 /\ ~IsChronological(acc.data)
                  THEN Append(acc.warnings,
                         "Data is not in chronological order - this may affect analysis accuracy")
                  ELSE acc.warnings]

FinalValidation(acc) ==
    [data |-> acc.data,
     errors |-> IF Len(acc.data) = 0 /\ Len(acc.errors) = 0
                THEN Append(acc.errors, "No valid data rows found after parsing")
                ELSE acc.errors,
     warnings |-> IF Len(acc.data) > 1 /\ ~IsChronological(acc.data)
                  THEN Append(acc.warnings,
                         "Data is not in chronological order - this may affect analysis accuracy")
                  ELSE acc.warnings]

RECURSIVE FoldRows(_, _, _)
FoldRows(acc, rows, index) ==
    IF index >= Len(rows) THEN acc
    ELSE FoldRows(ProcessRow(acc, rows[index + 1], index + 3), rows, index + 1)

EmptyResult == [data |-> <<>>, errors |-> <<>>, warnings |-> <<>>]

\* parseCSVWithValidation as a function of the text
ParseCSVWithValidation(text) ==
    IF Len(Trim(text)) = 0
    THEN [EmptyResult EXCEPT !.errors = <<"CSV file is empty">>]
    ELSE LET ls == Split(Trim(text), "\n")
         IN IF Len(ls) < 3
            THEN [EmptyResult EXCEPT !.errors =
                    <<"CSV file must have at least 3 rows (header + 2 data rows)">>]
            ELSE FinalValidation(FoldRows(EmptyResult, SubSeq(ls, 3, Len(ls)), 0))

\* as ParseCSVOutcome, failing only when there is no record to return
ParseCSVOutcome_ThrowsOnNoData(result) ==
    IF Len(result.data) = 0
    THEN [kind |-> "throw",
          message |-> "CSV parsing errors: " \o Join(result.errors, ", "),
          records |-> <<>>]
    ELSE [kind |-> "return", message |-> "", records |-> result.data]

\* parseCSV, given the result of parseCSVWithValidation
ParseCSVOutcome(result) ==
    IF Len(result.errors) > 0
    THEN [kind |-> "throw",
          message |-> "CSV parsing errors: " \o Join(result.errors, ", "),
          records |-> <<>>]
    ELSE [kind |-> "return", message |-> "", records |-> result.data]

----------------------------------------------------------------------------
(* The texts the parser is run on: a title line, a header line and up to   *)
(* MaxRows data lines taken from one of two pools of rows, the texts of    *)
(* one further data line, and the texts with fewer lines.                  *)
(* Field order: date, SHA, SHE, CSI300, shares, share value, gain/loss,    *)
(* daily gain, market value, principle.                                    *)

TitleLine == "Sheet1"

HeaderLine == "Date,SHA,SHE"

AcceptPool ==
    { "02/01/2020,3,9,4,1,1.5,0,0,1,1",        \* accepted, DD/MM/YYYY
      "2020-01-03,3,9,4,1,1.6,1,1,1,1",        \* accepted, ISO date
      "1/1/2019,0,0,0,(1),1.2,0,0,1,1",        \* earlier date, zero levels, negative shares
      "30/02/2021,1,1,1,1,1.1,0,0,1,1",        \* no such day
      "02/01/2020,1,2",                        \* three fields
      "02/01/2020,1,1,1,1,0,0,0,1,1",          \* share value 0
      "02/01/2020,1,1,1,1,1,234.50,0,0,1,1" }  \* share value written 1,234.50

RejectPool ==
    { "02/01/2020,3,9,4,1,1.5,0,0,1,1",        \* accepted, DD/MM/YYYY
      "32/01/2020,1,1,1,1,(1.5),0,0,1,1",      \* day out of range, negative share value
      "aa/01/2020,1,1,1,1,1.1,0,0,1,1",        \* non-numeric day
      "2020-xx-01,1,1,1,1,1.1,0,0,1,1",        \* not a date
      ",,,",                                   \* all fields empty
      "",                                      \* empty line
      "02/01/2020,1,1,1,1,abc,0,0,1,1" }       \* share value unparseable

\* rows that are only tried alone
SingleRows ==
    { "01/2020,1,1,1,1,1.1,0,0,1,1",           \* two groups
      "20200102,1,1,1,1,1.1,0,0,1,1",          \* no separator
      ",1,1,1,1,1.1,0,0,1,1",                  \* no date
      "02/01/2020,1,1,1,1,,0,0,1,1",           \* share value empty
      "02/01/2020,1,1,1,1,1.5,(1,234.50),0,1,1",  \* gain/loss written (1,234.50)
      "02/01/2020,1,1,1,1,1.5,(1 2.5),0,1,1" }    \* gain/loss written (1 2.5)

\* the sequences of at most n elements of S
SeqsUpTo(S, n) == UNION {[1..m -> S] : m \in 0..n}

Texts ==
    {"", "  \n ", TitleLine}
    \cup {Join(<<TitleLine, HeaderLine>> \o rows, "\n") :
             rows \in SeqsUpTo(AcceptPool, MaxRows) \cup SeqsUpTo(RejectPool, MaxRows)}
    \cup {Join(<<TitleLine, HeaderLine, row>>, "\n") : row \in SingleRows}

\* the market-indices code is not running
NoMarket == <<>>

NoOutcome == [kind |-> "none", message |-> "", records |-> <<>>]

\* no engine has returned yet
NoRet == [fn |-> "none", value |-> <<>>]

\* the locals of calculateDrawdownAnalysis outside its loop
NoLoop ==
    [i |-> 0, currentPeak |-> Num(0), currentPeakDate |-> "", inDrawdown |-> FALSE,
     drawdownStart |-> "", maxDrawdownPercent |-> Num(0), maxDrawdownIndex |-> 0,
     drawdowns |-> <<>>]

ParserInit ==
    /\ dateRollover \in BOOLEAN
    /\ mpc = "off"
    /\ mx = NoMarket
    /\ csvText \in Texts
    /\ ppc = "start"
    /\ lines = <<>>
    /\ rowIdx = 0
    /\ data = <<>>
    /\ errors = <<>>
    /\ warnings = <<>>
    /\ outcome = NoOutcome
    /\ epc = "off"
    /\ dd = NoLoop
    /\ ret = NoRet

\* parseCSVWithValidation up to the loop: the empty-text and the
\* fewer-than-3-lines returns, and the split into lines
ParseBegin ==
    /\ ppc = "start"
    /\ IF Len(Trim(csvText)) = 0
       THEN /\ errors' = <<"CSV file is empty">>
            /\ ppc' = "parsed"
            /\ lines' = lines
       ELSE LET ls == Split(Trim(csvText), "\n")
            IN IF Len(ls) < 3
               THEN /\ errors' = <<"CSV file must have at least 3 rows (header + 2 data rows)">>
                    /\ ppc' = "parsed"
                    /\ lines' = ls
               ELSE /\ errors' = errors
                    /\ ppc' = "rows"
                    /\ lines' = ls
    /\ UNCHANGED <<marketVars, dateRollover, csvText, rowIdx, data, warnings, outcome, engineVars>>

\* one iteration of processedRows.forEach
ProcessNextRow ==
    /\ ppc = "rows"
    /\ rowIdx < Len(lines) - 2
    /\ LET acc == ProcessRow([data |-> data, errors |-> errors, warnings |-> warnings],
                             lines[rowIdx + 3], rowIdx + 3)
       IN /\ data' = acc.data
          /\ errors' = acc.errors
          /\ warnings' = acc.warnings
    /\ rowIdx' = rowIdx + 1
    /\ UNCHANGED <<marketVars, dateRollover, csvText, ppc, lines, outcome, engineVars>>

\* after the loop: final validation, chronological check, return
ParseFinish ==
    /\ ppc = "rows"
    /\ rowIdx = Len(lines) - 2
    /\ LET acc == FinalValidation([data |-> data, errors |-> errors, warnings |-> warnings])
       IN /\ data' = acc.data
          /\ errors' = acc.errors
          /\ warnings' = acc.warnings
    /\ ppc' = "parsed"
    /\ UNCHANGED <<marketVars, dateRollover, csvText, lines, rowIdx, outcome, engineVars>>

\* parseCSV, once parseCSVWithValidation has returned: throw or return the data
ParseCSVReturn ==
    /\ ppc = "parsed"
    /\ outcome' = ParseCSVOutcome([data |-> data, errors |-> errors, warnings |-> warnings])
    /\ ppc' = "done"
    /\ UNCHANGED <<marketVars, dateRollover, csvText, lines, rowIdx, data, errors, warnings, engineVars>>

ParserNext == ParseBegin \/ ProcessNextRow \/ ParseFinish \/ ParseCSVReturn

vars == <<dateRollover, parserVars, engineVars, marketVars>>

SpecParser == ParserInit /\ [][ParserNext]_vars

----------------------------------------------------------------------------
(* The analysis engines, as functions of the record sequence.  Arrays are  *)
(* indexed from 0 in the code and from 1 here.                             *)

Min(a, b) == IF a < b THEN a ELSE b

\* Array.prototype.reduce((a, b) => a + b, 0)
RECURSIVE SumSeq(_)
SumSeq(xs) ==
    IF Len(xs) = 0 THEN Num(0)
    ELSE JsAdd(SumSeq(SubSeq(xs, 1, Len(xs) - 1)), xs[Len(xs)])

\* ((last - first) / first) * 100
PercentChange(last, first) == JsMul(JsDiv(JsSub(last, first), first), Num(100))

\* the local time of the environment against UTC
TimeZones == {"ahead", "behind"}

\* new Date(s).getFullYear() of a date 'YYYY-MM-DD': the string is read as
\* midnight UTC and the year is taken in local time, which is still the day
\* before where local time is behind UTC
GetFullYear(s, zone) ==
    IF NewDate(s).k = "nan" THEN NaN
    ELSE IF zone = "behind" /\ SubSeq(s, 5, 10) = "-01-01"
    THEN Num(DigitsValue(SubSeq(s, 1, 4)) - 1)
    ELSE Num(DigitsValue(SubSeq(s, 1, 4)))

\* Math.pow(base, exponent) for a positive finite base
JsPow(base, exponent) ==
    CASE exponent.k = "nan" -> NaN
      [] exponent.k = "inf" ->
            IF JsEq(base, Num(1)) THEN NaN
            ELSE IF JsGt(base, Num(1)) = (exponent.n > 0) THEN Inf(1)
            ELSE Num(0)
      [] exponent.k = "fin" ->
            IF exponent.n = 0 \/ JsEq(base, Num(1)) THEN Num(1) ELSE Irr(1)

\* 365.25 days
DaysPerYear == Fin(36525, 100)

\* the years between the first and the last record; the time values are in days
YearsBetween(first, last) ==
    JsDiv(JsSub(NewDate(last.date), NewDate(first.date)), DaysPerYear)

\* the object returned by calculateOverallMetrics
OverallResult(first, last, years) ==
    [isNull |-> FALSE,
     totalReturn |-> PercentChange(last.shareValue, first.shareValue),
     annualizedReturn |->
         JsMul(JsSub(JsPow(JsDiv(last.shareValue, first.shareValue), JsDiv(Num(1), years)),
                     Num(1)),
               Num(100)),
     currentShareValue |-> last.shareValue,
     totalShares |-> last.shares,
     totalMarketValue |-> last.marketValue,
     totalGainLoss |-> last.gainLoss,
     totalPrinciple |-> last.principle]

\* the null returned for no records
NullMetrics ==
    [isNull |-> TRUE, totalReturn |-> Undefined, annualizedReturn |-> Undefined,
     currentShareValue |-> Undefined, totalShares |-> Undefined,
     totalMarketValue |-> Undefined, totalGainLoss |-> Undefined,
     totalPrinciple |-> Undefined]

\* calculateOverallMetrics
CalculateOverallMetrics(records) ==
    IF Len(records) = 0 THEN NullMetrics
    ELSE OverallResult(records[1], records[Len(records)],
                       YearsBetween(records[1], records[Len(records)]))

\* yearlyData.set for one row: the entry of the year is created or its last replaced
SetYear(prev, row, year) ==
    IF \A j \in 1..Len(prev) : prev[j].year # year
    THEN Append(prev, [year |-> year, first |-> row, last |-> row])
    ELSE [j \in 1..Len(prev) |->
            IF prev[j].year = year THEN [prev[j] EXCEPT !.last = row] ELSE prev[j]]

\* the forEach of calculateAnnualReturns over the first n rows: yearlyData in
\* insertion order
RECURSIVE YearlyData(_, _, _)
YearlyData(records, n, zone) ==
    IF n = 0 THEN <<>>
    ELSE SetYear(YearlyData(records, n - 1, zone), records[n],
                 GetFullYear(records[n].date, zone))

\* the position of the entry that sorts first
FirstByYear(entries) ==
    CHOOSE j \in 1..Len(entries) :
        \A l \in 1..Len(entries) : ~JsLt(entries[l].year, entries[j].year)

\* Array.prototype.sort((a, b) => a.year - b.year), the years being distinct numbers
RECURSIVE SortByYear(_)
SortByYear(entries) ==
    IF Len(entries) = 0 THEN <<>>
    ELSE <<entries[FirstByYear(entries)]>>
         \o SortByYear(RemoveAt(entries, FirstByYear(entries)))

\* the map of calculateAnnualReturns
AnnualRows(yearly) ==
    [j \in 1..Len(yearly) |->
        [year |-> yearly[j].year,
         fundReturn |-> PercentChange(yearly[j].last.shareValue, yearly[j].first.shareValue),
         shaReturn |-> PercentChange(yearly[j].last.sha, yearly[j].first.sha),
         sheReturn |-> PercentChange(yearly[j].last.she, yearly[j].first.she),
         csi300Return |-> PercentChange(yearly[j].last.csi300, yearly[j].first.csi300)]]

\* calculateAnnualReturns
CalculateAnnualReturns(records, zone) ==
    SortByYear(AnnualRows(YearlyData(records, Len(records), zone)))

\* values[i] - mean for the first n values
RECURSIVE Deviations(_, _, _)
Deviations(values, mean, n) ==
    IF n = 0 THEN <<>>
    ELSE Append(Deviations(values, mean, n - 1), FlSub(values[n], mean))

\* the sum of diff1 * diff2 over the first n iterations of the loop
RECURSIVE SumProductsTo(_, _, _)
SumProductsTo(diffs1, diffs2, n) ==
    IF n = 0 THEN Num(0)
    ELSE FlAdd(SumProductsTo(diffs1, diffs2, n - 1), FlMul(diffs1[n], diffs2[n]))

SumProducts(diffs1, diffs2) == SumProductsTo(diffs1, diffs2, Len(diffs1))

\* denominator === 0 ? 0 : numerator / denominator
CorrelationRatio(numerator, denominator) ==
    IF IsZero(denominator) THEN Num(0) ELSE FlDiv(numerator, denominator)

CorrelationOfDeviations(diffs1, diffs2) ==
    CorrelationRatio(SumProducts(diffs1, diffs2),
                     FlSqrt(FlMul(SumProducts(diffs1, diffs1), SumProducts(diffs2, diffs2))))

\* the means divide the sums of the whole arrays by n; the loop runs over the
\* first n elements
CorrelationOfFloats(values1, values2, n) ==
    CorrelationOfDeviations(Deviations(values1, FlDiv(FlSum(values1), Num(n)), n),
                            Deviations(values2, FlDiv(FlSum(values2), Num(n)), n))

\* calculateCorrelation
CalculateCorrelation(values1, values2) ==
    IF Min(Len(values1), Len(values2)) = 0 THEN Num(0)
    ELSE CorrelationOfFloats(Floats(values1), Floats(values2),
                             Min(Len(values1), Len(values2)))

\* data.map(d => d.<field>)
ShareValues(records) == [i \in 1..Len(records) |-> records[i].shareValue]

ShaValues(records) == [i \in 1..Len(records) |-> records[i].sha]

SheValues(records) == [i \in 1..Len(records) |-> records[i].she]

Csi300Values(records) == [i \in 1..Len(records) |-> records[i].csi300]

\* calculateCorrelations
CalculateCorrelations(records) ==
    [sha |-> CalculateCorrelation(ShareValues(records), ShaValues(records)),
     she |-> CalculateCorrelation(ShareValues(records), SheValues(records)),
     csi300 |-> CalculateCorrelation(ShareValues(records), Csi300Values(records))]

\* the mean of the squared deviations of the rationals xs from their mean: 0
\* when all are equal, otherwise positive (the magnitude is not modelled)
Variance(xs) ==
    CASE \A i \in 1..Len(xs) : xs[i].k = "fin" ->
            IF \A i \in 1..Len(xs) : xs[i] = xs[1] THEN Num(0) ELSE Irr(1)

\* Math.sqrt(variance * 252) * 100
Annualize(variance) == JsMul(JsSqrt(JsMul(variance, Num(252))), Num(100))

\* the daily returns of calculateRiskMetrics
DailyReturns(records) ==
    [i \in 1..(Len(records) - 1) |->
        JsDiv(JsSub(records[i + 1].shareValue, records[i].shareValue), records[i].shareValue)]

\* dailyReturns.filter(ret => ret < 0)
RECURSIVE NegativeReturns(_)
NegativeReturns(xs) ==
    IF Len(xs) = 0 THEN <<>>
    ELSE (IF JsLt(xs[1], Num(0)) THEN <<xs[1]>> ELSE <<>>) \o NegativeReturns(Tail(xs))

\* one iteration of the maximum-drawdown loop of calculateRiskMetrics
RiskDrawdownStep(maxDrawdown, drawdown, peak) ==
    [peak |-> peak,
     maxDrawdown |-> IF JsGt(drawdown, maxDrawdown) THEN drawdown ELSE maxDrawdown]

RiskPeakStep(maxDrawdown, peak, v) ==
    RiskDrawdownStep(maxDrawdown, JsMul(JsDiv(JsSub(peak, v), peak), Num(100)), peak)

\* as RiskLoopStep, the peak staying the first value
RiskLoopStep_PeakNeverRaised(prev, v) ==
    RiskPeakStep(prev.maxDrawdown, prev.peak, v)

RiskLoopStep(prev, v) ==
    RiskPeakStep(prev.maxDrawdown, IF JsGt(v, prev.peak) THEN v ELSE prev.peak, v)

\* the maximum-drawdown loop of calculateRiskMetrics, up to index n (0-based)
RECURSIVE RiskDrawdownLoop(_, _)
RiskDrawdownLoop(records, n) ==
    IF n = 0 THEN [peak |-> records[1].shareValue, maxDrawdown |-> Num(0)]
    ELSE RiskLoopStep(RiskDrawdownLoop(records, n - 1), records[n + 1].shareValue)

ZeroRiskMetrics ==
    [sharpeRatio |-> Num(0), maxDrawdown |-> Num(0), volatility |-> Num(0),
     downsideDeviation |-> Num(0), sortinioRatio |-> Num(0)]

\* as RiskTooFewRecords, one record being taken for enough
RiskTooFewRecords_OnlyEmpty(records) == Len(records) < 1

\* the guard of the degenerate case of calculateRiskMetrics
RiskTooFewRecords(records) == Len(records) < 2

\* divisor !== 0 ? excessReturn / divisor : 0
RatioOrZero(excessReturn, divisor) ==
    IF ~IsZero(divisor) THEN JsDiv(excessReturn, divisor) ELSE Num(0)

\* the downside deviation: the squares of the negative returns have a positive mean
DownsideDeviation(negativeReturns) ==
    IF Len(negativeReturns) > 0 THEN Annualize(Irr(1)) ELSE Num(0)

\* the object returned by calculateRiskMetrics
RiskResult(excessReturn, volatility, maxDrawdown, downsideDeviation) ==
    [sharpeRatio |-> ToFixed(RatioOrZero(excessReturn, volatility), 3),
     maxDrawdown |-> ToFixed(maxDrawdown, 2),
     volatility |-> ToFixed(volatility, 2),
     downsideDeviation |-> ToFixed(downsideDeviation, 2),
     sortinioRatio |-> ToFixed(RatioOrZero(excessReturn, downsideDeviation), 3)]

\* calculateRiskMetrics, the daily returns being computed; riskFreeRate is 0.03
RiskOfReturns(records, dailyReturns, meanReturn) ==
    RiskResult(JsSub(JsMul(JsMul(meanReturn, Num(252)), Num(100)), Num(3)),
               Annualize(IF meanReturn.k = "nan" THEN NaN ELSE Variance(dailyReturns)),
               RiskDrawdownLoop(records, Len(records) - 1).maxDrawdown,
               DownsideDeviation(NegativeReturns(dailyReturns)))

RiskOfDailyReturns(records, dailyReturns) ==
    RiskOfReturns(records, dailyReturns,
                  JsDiv(SumSeq(dailyReturns), Num(Len(dailyReturns))))

\* calculateRiskMetrics with the default riskFreeRate
CalculateRiskMetrics(records) ==
    IF RiskTooFewRecords(records) THEN ZeroRiskMetrics
    ELSE RiskOfDailyReturns(records, DailyReturns(records))

\* the loop of calculateReturns over floating-point values: a return whose
\* base level is 0 is left out
RECURSIVE ReturnsOfFloats(_)
ReturnsOfFloats(values) ==
    IF Len(values) < 2 THEN <<>>
    ELSE ReturnsOfFloats(SubSeq(values, 1, Len(values) - 1))
         \o (IF ~IsZero(values[Len(values) - 1])
             THEN <<FlDiv(FlSub(values[Len(values)], values[Len(values) - 1]),
                          values[Len(values) - 1])>>
             ELSE <<>>)

\* calculateReturns
CalculateReturns(values) == ReturnsOfFloats(Floats(values))

\* benchmarkVariance !== 0 ? covariance / benchmarkVariance : 0
BetaRatio(covariance, benchmarkVariance) ==
    IF ~IsZero(benchmarkVariance) THEN FlDiv(covariance, benchmarkVariance) ELSE Num(0)

BetaOfDeviations(portfolioDiffs, benchmarkDiffs) ==
    BetaRatio(SumProducts(portfolioDiffs, benchmarkDiffs),
              SumProducts(benchmarkDiffs, benchmarkDiffs))

\* the mean of the first n elements
MeanOfFirst(xs, n) == FlDiv(FlSum(SubSeq(xs, 1, n)), Num(n))

BetaOfFirst(portfolioReturns, benchmarkReturns, minLength) ==
    BetaOfDeviations(
        Deviations(portfolioReturns, MeanOfFirst(portfolioReturns, minLength), minLength),
        Deviations(benchmarkReturns, MeanOfFirst(benchmarkReturns, minLength), minLength))

\* calculateBeta
CalculateBeta(portfolioReturns, benchmarkReturns) ==
    IF Min(Len(portfolioReturns), Len(benchmarkReturns)) = 0 THEN Num(0)
    ELSE BetaOfFirst(portfolioReturns, benchmarkReturns,
                     Min(Len(portfolioReturns), Len(benchmarkReturns)))

\* the mean of the squared deviations of xs from its mean
MeanSquare(diffs) == FlDiv(SumProducts(diffs, diffs), Num(Len(diffs)))

VarianceOfFloats(xs) == MeanSquare(Deviations(xs, MeanOfFirst(xs, Len(xs)), Len(xs)))

\* calculateTrackingError
CalculateTrackingError(portfolioReturns, benchmarkReturns) ==
    IF Min(Len(portfolioReturns), Len(benchmarkReturns)) = 0 THEN Num(0)
    ELSE Annualize(VarianceOfFloats(
                       [i \in 1..Min(Len(portfolioReturns), Len(benchmarkReturns)) |->
                           FlSub(portfolioReturns[i], benchmarkReturns[i])]))

\* the object returned for one benchmark; the risk-free rate is 3
ComparisonEntry(name, portfolioTotalReturn, benchmarkTotalReturn, beta, trackingError) ==
    [benchmark |-> name,
     portfolioReturn |-> ToFixed(portfolioTotalReturn, 2),
     benchmarkReturn |-> ToFixed(benchmarkTotalReturn, 2),
     alpha |-> ToFixed(JsSub(portfolioTotalReturn,
                             JsAdd(Num(3), JsMul(beta, JsSub(benchmarkTotalReturn, Num(3))))),
                       2),
     beta |-> ToFixed(beta, 3),
     trackingError |-> ToFixed(trackingError, 2),
     informationRatio |->
         ToFixed(RatioOrZero(JsSub(portfolioTotalReturn, benchmarkTotalReturn), trackingError),
                 3),
     activeReturn |-> ToFixed(JsSub(portfolioTotalReturn, benchmarkTotalReturn), 2)]

ComparisonOfReturns(name, portfolioValues, benchmarkValues, portfolioReturns, benchmarkReturns) ==
    ComparisonEntry(name,
                    PercentChange(portfolioValues[Len(portfolioValues)], portfolioValues[1]),
                    PercentChange(benchmarkValues[Len(benchmarkValues)], benchmarkValues[1]),
                    CalculateBeta(portfolioReturns, benchmarkReturns),
                    CalculateTrackingError(portfolioReturns, benchmarkReturns))

\* one entry of calculateBenchmarkComparisons
BenchmarkComparison(name, portfolioValues, benchmarkValues) ==
    ComparisonOfReturns(name, portfolioValues, benchmarkValues,
                        CalculateReturns(portfolioValues), CalculateReturns(benchmarkValues))

\* calculateBenchmarkComparisons
CalculateBenchmarkComparisons(records) ==
    IF Len(records) < 2 THEN <<>>
    ELSE << BenchmarkComparison("SHA", ShareValues(records), ShaValues(records)),
            BenchmarkComparison("SHE", ShareValues(records), SheValues(records)),
            BenchmarkComparison("CSI300", ShareValues(records), Csi300Values(records)) >>

\* the days from one time value to another, rounded up
DaysBetween(from, to) == JsCeil(JsSub(to, from))

\* createDrawdownPeriod; recoveryDate is <<>> when undefined, else <<date>>
CreateDrawdownPeriod(startDate, endDate, recoveryDate, peakValue, troughValue, drawdownPercent) ==
    [startDate |-> startDate,
     endDate |-> endDate,
     recoveryDate |-> recoveryDate,
     peakValue |-> peakValue,
     troughValue |-> troughValue,
     drawdownPercent |-> ToFixed(drawdownPercent, 2),
     durationDays |-> DaysBetween(NewDate(startDate), NewDate(endDate)),
     recoveryDays |-> IF Len(recoveryDate) = 1 /\ recoveryDate[1] # ""
                      THEN DaysBetween(NewDate(endDate), NewDate(recoveryDate[1]))
                      ELSE Undefined]

\* the zero-valued maxDrawdown object
ZeroDrawdownPeriod ==
    [startDate |-> "", endDate |-> "", recoveryDate |-> <<>>, peakValue |-> Num(0),
     troughValue |-> Num(0), drawdownPercent |-> Num(0), durationDays |-> Num(0),
     recoveryDays |-> Undefined]

\* the result of calculateDrawdownAnalysis for fewer than 2 records
EmptyDrawdownAnalysis ==
    [maxDrawdown |-> ZeroDrawdownPeriod, allDrawdowns |-> <<>>, averageDrawdown |-> Num(0),
     averageRecoveryTime |-> Num(0), currentDrawdown |-> <<>>]

\* the locals of calculateDrawdownAnalysis before the loop; i is the loop
\* index, so that the current record is records[i + 1]
DrawdownLoopInit(records) ==
    [i |-> 1,
     currentPeak |-> records[1].shareValue,
     currentPeakDate |-> records[1].date,
     inDrawdown |-> FALSE,
     drawdownStart |-> "",
     maxDrawdownPercent |-> Num(0),
     maxDrawdownIndex |-> 0,
     drawdowns |-> <<>>]

\* as AboveThreshold, the threshold being "not negative"
AboveThreshold_NotNegative(drawdownPercent) == JsLe(Num(0), drawdownPercent)

\* the threshold of the loop: only declines of more than 0.1% are tracked
AboveThreshold(drawdownPercent) == JsGt(drawdownPercent, Fin(1, 10))

\* the period of the episode that the locals st describe
EpisodePeriod(st, records, recoveryDate) ==
    CreateDrawdownPeriod(st.drawdownStart, records[st.maxDrawdownIndex + 1].date, recoveryDate,
                         st.currentPeak, records[st.maxDrawdownIndex + 1].shareValue,
                         st.maxDrawdownPercent)

\* as OnNewPeak, the completed episode being put in front of the list
OnNewPeak_PushesInFront(st, records, currentValue, currentDate) ==
    [st EXCEPT !.i = st.i + 1,
               !.drawdowns = IF st.inDrawdown
                             THEN <<EpisodePeriod(st, records, <<currentDate>>)>>
                                  \o st.drawdowns
                             ELSE st.drawdowns,
               !.inDrawdown = FALSE,
               !.currentPeak = currentValue,
               !.currentPeakDate = currentDate,
               !.maxDrawdownPercent = Num(0)]

\* as OnNewPeak, the completed episode not being pushed
OnNewPeak_EpisodeLost(st, records, currentValue, currentDate) ==
    [st EXCEPT !.i = st.i + 1,
               !.inDrawdown = FALSE,
               !.currentPeak = currentValue,
               !.currentPeakDate = currentDate,
               !.maxDrawdownPercent = Num(0)]

\* the branch currentValue > currentPeak
OnNewPeak(st, records, currentValue, currentDate) ==
    [st EXCEPT !.i = st.i + 1,
               !.drawdowns = IF st.inDrawdown
                             THEN Append(st.drawdowns,
                                         EpisodePeriod(st, records, <<currentDate>>))
                             ELSE st.drawdowns,
               !.inDrawdown = FALSE,
               !.currentPeak = currentValue,
               !.currentPeakDate = currentDate,
               !.maxDrawdownPercent = Num(0)]

\* the branch of a potential drawdown
OnDecline(st, drawdownPercent) ==
    IF ~AboveThreshold(drawdownPercent) THEN [st EXCEPT !.i = st.i + 1]
    ELSE IF ~st.inDrawdown
    THEN [st EXCEPT !.i = st.i + 1,
                    !.inDrawdown = TRUE,
                    !.drawdownStart = st.currentPeakDate,
                    !.maxDrawdownPercent = drawdownPercent,
                    !.maxDrawdownIndex = st.i]
    ELSE IF JsGt(drawdownPercent, st.maxDrawdownPercent)
    THEN [st EXCEPT !.i = st.i + 1,
                    !.maxDrawdownPercent = drawdownPercent,
                    !.maxDrawdownIndex = st.i]
    ELSE [st EXCEPT !.i = st.i + 1]

\* as DrawdownIteration, a record level with the peak being a new peak too
DrawdownIteration_PeakOnEqual(st, records) ==
    IF ~JsLt(records[st.i + 1].shareValue, st.currentPeak)
    THEN OnNewPeak(st, records, records[st.i + 1].shareValue, records[st.i + 1].date)
    ELSE OnDecline(st, JsMul(JsDiv(JsSub(st.currentPeak, records[st.i + 1].shareValue),
                                   st.currentPeak),
                             Num(100)))

\* one iteration of the loop of calculateDrawdownAnalysis
DrawdownIteration(st, records) ==
    IF JsGt(records[st.i + 1].shareValue, st.currentPeak)
    THEN OnNewPeak(st, records, records[st.i + 1].shareValue, records[st.i + 1].date)
    ELSE OnDecline(st, JsMul(JsDiv(JsSub(st.currentPeak, records[st.i + 1].shareValue),
                                   st.currentPeak),
                             Num(100)))

\* as OngoingDrawdown, the episode open at the end being dropped
OngoingDrawdown_Dropped(st, records) == <<>>

\* the drawdown still open after the loop: <<>> or <<period>>
OngoingDrawdown(st, records) ==
    IF st.inDrawdown THEN <<EpisodePeriod(st, records, <<>>)>> ELSE <<>>

\* as FindMaxDrawdown, a later element of the same drawdownPercent being taken
RECURSIVE FindMaxDrawdown_LatestOnTies(_, _)
FindMaxDrawdown_LatestOnTies(drawdowns, n) ==
    IF n = 0
    THEN (IF Len(drawdowns) > 0 THEN drawdowns[1] ELSE ZeroDrawdownPeriod)
    ELSE IF ~JsLt(drawdowns[n].drawdownPercent,
                  FindMaxDrawdown_LatestOnTies(drawdowns, n - 1).drawdownPercent)
         THEN drawdowns[n]
         ELSE FindMaxDrawdown_LatestOnTies(drawdowns, n - 1)

\* the forEach that finds the maximum drawdown, over the first n elements
RECURSIVE FindMaxDrawdown(_, _)
FindMaxDrawdown(drawdowns, n) ==
    IF n = 0
    THEN (IF Len(drawdowns) > 0 THEN drawdowns[1] ELSE ZeroDrawdownPeriod)
    ELSE IF JsGt(drawdowns[n].drawdownPercent,
                 FindMaxDrawdown(drawdowns, n - 1).drawdownPercent)
         THEN drawdowns[n]
         ELSE FindMaxDrawdown(drawdowns, n - 1)

\* as CompletedDrawdowns, nothing being filtered out
CompletedDrawdowns_All(drawdowns) == drawdowns

\* drawdowns.filter(dd => dd.recoveryDate)
RECURSIVE CompletedDrawdowns(_)
CompletedDrawdowns(drawdowns) ==
    IF Len(drawdowns) = 0 THEN <<>>
    ELSE (IF Len(drawdowns[1].recoveryDate) = 1 /\ drawdowns[1].recoveryDate[1] # ""
          THEN <<drawdowns[1]>> ELSE <<>>)
         \o CompletedDrawdowns(Tail(drawdowns))

\* dd.recoveryDays || 0
RecoveryDaysOrZero(p) ==
    IF p.recoveryDays.k \in {"undef", "nan"} THEN Num(0) ELSE p.recoveryDays

\* drawdowns.length > 0 ? sum of drawdownPercent / drawdowns.length : 0
AverageDrawdown(drawdowns) ==
    IF Len(drawdowns) > 0
    THEN JsDiv(SumSeq([j \in 1..Len(drawdowns) |-> drawdowns[j].drawdownPercent]),
               Num(Len(drawdowns)))
    ELSE Num(0)

\* the mean of recoveryDays over the completed drawdowns, 0 if there is none
AverageRecoveryTime(completed) ==
    IF Len(completed) > 0
    THEN JsDiv(SumSeq([j \in 1..Len(completed) |-> RecoveryDaysOrZero(completed[j])]),
               Num(Len(completed)))
    ELSE Num(0)

\* the object returned by calculateDrawdownAnalysis
DrawdownSummary(drawdowns, currentDrawdown) ==
    [maxDrawdown |-> FindMaxDrawdown(drawdowns, Len(drawdowns)),
     allDrawdowns |-> drawdowns,
     averageDrawdown |-> ToFixed(AverageDrawdown(drawdowns), 2),
     averageRecoveryTime |-> ToFixed(AverageRecoveryTime(CompletedDrawdowns(drawdowns)), 0),
     currentDrawdown |-> currentDrawdown]

\* calculateDrawdownAnalysis after the loop: the open episode is pushed
DrawdownResult(st, records) ==
    DrawdownSummary(st.drawdowns \o OngoingDrawdown(st, records), OngoingDrawdown(st, records))

RECURSIVE DrawdownLoop(_, _)
DrawdownLoop(st, records) ==
    IF st.i >= Len(records) THEN st ELSE DrawdownLoop(DrawdownIteration(st, records), records)

\* calculateDrawdownAnalysis as a function of the record sequence
CalculateDrawdownAnalysis(records) ==
    IF Len(records) < 2 THEN EmptyDrawdownAnalysis
    ELSE DrawdownResult(DrawdownLoop(DrawdownLoopInit(records), records), records)

----------------------------------------------------------------------------
(* The analysis as a state machine: the engines are called one at a time,  *)
(* in any order and any number of times, on a record sequence such as the  *)
(* parser outputs (shareValue > 0, benchmark levels possibly 0, dates      *)
(* possibly equal or descending).  calculateDrawdownAnalysis runs its loop *)
(* one iteration per step; the other engines are single steps.             *)

MaxRecords == 4

\* share values: 99.95 is within 0.1% of 100
ShareValueLevels == {Num(90), Fin(1999, 20), Num(100), Num(110)}

DateProfiles == {"ascending", "same", "descending"}

BenchmarkProfiles == {"live", "zero"}

AscendingDates ==
    <<"2014-12-30", "2014-12-31", "2015-01-02", "2015-01-05", "2016-03-01", "2016-03-02">>

\* dates around the turn of two years
NewYearDates ==
    <<"2014-12-31", "2015-01-01", "2015-01-02", "2015-12-31", "2016-01-01", "2016-01-04">>

RecordDate(profile, i) ==
    CASE profile = "ascending" -> AscendingDates[i]
      [] profile = "same" -> "2020-01-02"
      [] profile = "descending" -> AscendingDates[Len(AscendingDates) + 1 - i]
      [] profile = "newyear" -> NewYearDates[i]

\* index levels that grow by 20% from each record to the next
CompoundLevels == <<Num(125), Num(150), Num(180), Num(216)>>

\* the benchmark levels of record i: [sha, she, csi300]
BenchmarkLevels(profile, i) ==
    CASE profile = "live" ->
            [sha |-> Num(3 + i), she |-> Num(4),
             csi300 |-> IF i = 2 THEN Num(0) ELSE Num(2 + i)]
      [] profile = "zero" ->
            [sha |-> IF i = 1 THEN Num(0) ELSE Num(3), she |-> Num(0), csi300 |-> Num(i)]
      [] profile = "compound" ->
            [sha |-> CompoundLevels[Min(i, Len(CompoundLevels))], she |-> Num(4),
             csi300 |-> Num(2 + i)]

MakeRecord(date, levels, shareValue) ==
    [date |-> date, sha |-> levels.sha, she |-> levels.she, csi300 |-> levels.csi300,
     shares |-> Num(1), shareValue |-> shareValue, gainLoss |-> Num(0),
     dailyGain |-> Num(0), marketValue |-> shareValue, principle |-> Num(100)]

RecordsOf(values, dates, benchmarks) ==
    [i \in 1..Len(values) |->
        MakeRecord(RecordDate(dates, i), BenchmarkLevels(benchmarks, i), values[i])]

\* further share value series: two episodes of 10%; two recovered episodes
\* and an open one; 1.0, 1.1 and 1.1, 1.2 in two years; one recovered episode;
\* one record
SpecialShareValues ==
    {<<Num(100), Num(90), Num(110), Num(99)>>,
     <<Num(100), Num(90), Num(110), Num(99), Num(120), Num(100)>>,
     <<Num(1), Fin(11, 10), Fin(11, 10), Fin(6, 5)>>,
     <<Num(100), Num(90), Num(95), Num(110)>>,
     <<Num(100)>>}

RecordSequences ==
    {RecordsOf(values, dates, benchmarks) :
       values \in SeqsUpTo(ShareValueLevels, MaxRecords),
       dates \in DateProfiles,
       benchmarks \in BenchmarkProfiles}
    \cup {RecordsOf(values, dates, benchmarks) :
             values \in SpecialShareValues,
             dates \in DateProfiles \cup {"newyear"},
             benchmarks \in BenchmarkProfiles \cup {"compound"}}

\* no date of the record sequences has a day that its month lacks, so the
\* engines do not depend on dateRollover
EngineInit ==
    /\ dateRollover = FALSE
    /\ mpc = "off"
    /\ mx = NoMarket
    /\ data \in RecordSequences
    /\ csvText = ""
    /\ ppc = "off"
    /\ lines = <<>>
    /\ rowIdx = 0
    /\ errors = <<>>
    /\ warnings = <<>>
    /\ outcome = NoOutcome
    /\ epc = "idle"
    /\ dd = NoLoop
    /\ ret = NoRet

CallOverallMetrics ==
    /\ epc = "idle"
    /\ ret = NoRet
    /\ ret' = [fn |-> "overall", value |-> CalculateOverallMetrics(data)]
    /\ UNCHANGED <<marketVars, dateRollover, parserVars, epc, dd>>

\* calculateAnnualReturns ordering the records themselves, latest first
CallAnnualReturns_SortsInput ==
    /\ epc = "idle"
    /\ ret = NoRet
    /\ \E zone \in TimeZones :
          ret' = [fn |-> "annual", value |-> CalculateAnnualReturns(data, zone)]
    /\ data' = [i \in 1..Len(data) |-> data[Len(data) + 1 - i]]
    /\ UNCHANGED <<marketVars, dateRollover, csvText, ppc, lines, rowIdx, errors, warnings, outcome, epc, dd>>

CallAnnualReturns ==
    /\ epc = "idle"
    /\ ret = NoRet
    /\ \E zone \in TimeZones :
          ret' = [fn |-> "annual", value |-> CalculateAnnualReturns(data, zone)]
    /\ UNCHANGED <<marketVars, dateRollover, parserVars, epc, dd>>

CallCorrelations ==
    /\ epc = "idle"
    /\ ret = NoRet
    /\ ret' = [fn |-> "correlations", value |-> CalculateCorrelations(data)]
    /\ UNCHANGED <<marketVars, dateRollover, parserVars, epc, dd>>

CallRiskMetrics ==
    /\ epc = "idle"
    /\ ret = NoRet
    /\ ret' = [fn |-> "risk", value |-> CalculateRiskMetrics(data)]
    /\ UNCHANGED <<marketVars, dateRollover, parserVars, epc, dd>>

CallBenchmarkComparisons ==
    /\ epc = "idle"
    /\ ret = NoRet
    /\ ret' = [fn |-> "benchmarks", value |-> CalculateBenchmarkComparisons(data)]
    /\ UNCHANGED <<marketVars, dateRollover, parserVars, epc, dd>>

\* calculateDrawdownAnalysis up to its loop: the early return, or the locals
DrawdownBegin ==
    /\ epc = "idle"
    /\ ret = NoRet
    /\ IF Len(data) < 2
       THEN /\ ret' = [fn |-> "drawdown", value |-> EmptyDrawdownAnalysis]
            /\ UNCHANGED <<epc, dd>>
       ELSE /\ dd' = DrawdownLoopInit(data)
            /\ epc' = "drawdown"
            /\ ret' = ret
    /\ UNCHANGED <<marketVars, dateRollover, parserVars>>

\* one iteration of the loop
DrawdownStep ==
    /\ epc = "drawdown"
    /\ dd.i < Len(data)
    /\ dd' = DrawdownIteration(dd, data)
    /\ UNCHANGED <<marketVars, dateRollover, parserVars, epc, ret>>

\* after the loop: the open episode, the maximum, the averages, the return
DrawdownFinish ==
    /\ epc = "drawdown"
    /\ dd.i >= Len(data)
    /\ ret' = [fn |-> "drawdown", value |-> DrawdownResult(dd, data)]
    /\ epc' = "idle"
    /\ dd' = NoLoop
    /\ UNCHANGED <<marketVars, dateRollover, parserVars>>

\* the caller takes the returned value; the next call can be made
ReturnConsumed ==
    /\ epc = "idle"
    /\ ret # NoRet
    /\ ret' = NoRet
    /\ UNCHANGED <<marketVars, dateRollover, parserVars, epc, dd>>

EngineNext ==
    \/ CallOverallMetrics
    \/ CallAnnualReturns
    \/ CallCorrelations
    \/ CallRiskMetrics
    \/ CallBenchmarkComparisons
    \/ DrawdownBegin
    \/ DrawdownStep
    \/ DrawdownFinish
    \/ ReturnConsumed

SpecEngine == EngineInit /\ [][EngineNext]_vars

----------------------------------------------------------------------------
(* calculateCorrelation as a state machine: the exported function is called *)
(* on two number sequences, of equal or unequal lengths, and returns; ret   *)
(* holds the arguments with the result.                                     *)

MaxValues == 3

\* 1.6 is not a binary fraction; 1, 2 and 4 are
ValueLevels == {Fin(8, 5), Num(1), Num(2), Num(4)}

NumberSequences == SeqsUpTo(ValueLevels, MaxValues)

StatisticsInit ==
    /\ dateRollover = FALSE
    /\ mpc = "off"
    /\ mx = NoMarket
    /\ data = <<>>
    /\ csvText = ""
    /\ ppc = "off"
    /\ lines = <<>>
    /\ rowIdx = 0
    /\ errors = <<>>
    /\ warnings = <<>>
    /\ outcome = NoOutcome
    /\ epc = "idle"
    /\ dd = NoLoop
    /\ ret = NoRet

CallCorrelation ==
    /\ epc = "idle"
    /\ ret = NoRet
    /\ \E values1 \in NumberSequences, values2 \in NumberSequences :
          ret' = [fn |-> "correlation",
                  value |-> [values1 |-> values1, values2 |-> values2,
                             result |-> CalculateCorrelation(values1, values2)]]
    /\ UNCHANGED <<marketVars, dateRollover, parserVars, epc, dd>>

StatisticsNext ==
    \/ CallCorrelation
    \/ ReturnConsumed

SpecStatistics == StatisticsInit /\ [][StatisticsNext]_vars

----------------------------------------------------------------------------
(* Properties of the parser, checked under SpecParser *)

\* the line the loop is about to process, and its fields
AtRow == ppc = "rows" /\ rowIdx < Len(lines) - 2

CurrentLine == lines[rowIdx + 3]

CurrentValues == RowValues(CurrentLine)

\* the current row gets as far as the numeric fields
ReachesNumbers ==
    /\ AtRow
    /\ Len(CurrentValues) >= 10
    /\ ParseRowDate(CurrentValues[1], rowIdx + 3).ok

\* s followed by each message of msgs, separated by ", "
RECURSIVE Concatenated(_, _, _)
Concatenated(s, msgs, i) ==
    IF i > Len(msgs) THEN s
    ELSE Concatenated(s \o (IF i = 1 THEN "" ELSE ", ") \o msgs[i], msgs, i + 1)

\* C1: parseCSV throws, with one message made of every collected error
\* message, exactly when parseCSVWithValidation of the same text has a
\* non-empty error list; otherwise it returns that call's data list, whatever
\* the warnings.
C1_ParseCSVThrowsIffErrors ==
    ppc = "done" =>
        LET r == ParseCSVWithValidation(csvText)
        IN /\ outcome.kind \in {"throw", "return"}
           /\ (outcome.kind = "throw") <=> (Len(r.errors) > 0)
           /\ outcome.kind = "throw" =>
                 outcome.message = Concatenated("CSV parsing errors: ", r.errors, 1)
           /\ outcome.kind = "return" => outcome.records = r.data

\* parseCSV threw on two errors although a record had been accepted and a
\* warning collected
C1_Witness ==
    /\ ppc = "done"
    /\ outcome.kind = "throw"
    /\ Len(errors) >= 2
    /\ Len(data) >= 1
    /\ Len(warnings) >= 1

C3_RecordsHaveRealDates ==
    \A i \in 1..Len(data) : IsCanonicalDate(data[i].date)

\* C4: parseCSVWithValidation never returns an empty data list together with
\* an empty error list, so parseCSV never returns an empty record list.
C4_NoEmptySuccess ==
    /\ ppc \in {"parsed", "done"} => ~(Len(data) = 0 /\ Len(errors) = 0)
    /\ (ppc = "done" /\ outcome.kind = "return") => Len(outcome.records) > 0

\* every row was skipped with a warning only, and the 'no valid data' error
\* was synthesized
C4_Witness ==
    /\ ppc = "parsed"
    /\ Len(lines) >= 4
    /\ Len(data) = 0
    /\ Len(warnings) = Len(lines) - 2
    /\ errors = <<"No valid data rows found after parsing">>

\* a row of fewer than 10 fields that is not an empty row
IsShortRow(line) ==
    LET values == RowValues(line)
    IN /\ Len(values) < 10
       /\ Trim(line) # ""
       /\ \E i \in 1..Len(values) : values[i] # ""

\* C5: a data row of fewer than 10 fields (not all-empty) adds exactly one
\* error and no record, processing continues, and the returned data list is
\* the one returned for the text without that row, wherever the row stands.
C5_ShortRowIsIsolated ==
    /\ [][(AtRow /\ IsShortRow(CurrentLine))
          => (/\ Len(errors') = Len(errors) + 1
              /\ SubSeq(errors', 1, Len(errors)) = errors
              /\ data' = data
              /\ ppc' = "rows"
              /\ rowIdx' = rowIdx + 1)]_vars
    /\ [](ppc = "parsed" =>
            \A i \in 3..Len(lines) :
                IsShortRow(lines[i]) =>
                    ParseCSVWithValidation(Join(RemoveAt(lines, i), "\n")).data = data)

\* the text had the short row between two accepted rows, and both were returned
C5_Witness ==
    /\ ppc = "parsed"
    /\ Len(lines) = 5
    /\ IsShortRow(lines[4])
    /\ Len(data) = 2
    /\ Len(errors) = 1

----------------------------------------------------------------------------
(* Properties of the analysis engines, checked under SpecEngine *)

\* the explicit zero-valued maxDrawdown object: empty dates, all numbers 0
IsZeroSentinel(p) ==
    /\ p.startDate = "" /\ p.endDate = ""
    /\ p.peakValue = Num(0) /\ p.troughValue = Num(0)
    /\ p.drawdownPercent = Num(0) /\ p.durationDays = Num(0)

\* the numbers in the value that the last call returned
ReturnedNumbers ==
    CASE ret.fn = "none" -> {}
      [] ret.fn = "overall" ->
            IF ret.value.isNull THEN {}
            ELSE {ret.value.totalReturn, ret.value.annualizedReturn}
      [] ret.fn = "annual" ->
            UNION {{ret.value[j].fundReturn, ret.value[j].shaReturn, ret.value[j].sheReturn,
                    ret.value[j].csi300Return} : j \in 1..Len(ret.value)}
      [] ret.fn = "correlations" -> {ret.value.sha, ret.value.she, ret.value.csi300}
      [] ret.fn = "risk" ->
            {ret.value.sharpeRatio, ret.value.maxDrawdown, ret.value.volatility,
             ret.value.downsideDeviation, ret.value.sortinioRatio}
      [] ret.fn = "benchmarks" ->
            UNION {{ret.value[j].portfolioReturn, ret.value[j].benchmarkReturn,
                    ret.value[j].alpha, ret.value[j].beta, ret.value[j].trackingError,
                    ret.value[j].informationRatio, ret.value[j].activeReturn} :
                   j \in 1..Len(ret.value)}
      [] ret.fn = "drawdown" ->
            {ret.value.averageDrawdown, ret.value.averageRecoveryTime}
            \cup {ret.value.allDrawdowns[j].drawdownPercent : j \in 1..Len(ret.value.allDrawdowns)}

\* C6: for a record sequence of length 0 or 1 every engine returns, and
\* calculateRiskMetrics returns its five metrics equal to 0,
\* calculateDrawdownAnalysis returns the zero-valued maxDrawdown with an empty
\* allDrawdowns, both averages 0 and no currentDrawdown (without entering its
\* loop), and calculateBenchmarkComparisons returns an empty list
C6_DegenerateInputsGiveSentinels ==
    Len(data) <= 1 =>
        /\ epc = "idle"
        /\ ret.fn = "risk" =>
              /\ ret.value.sharpeRatio = Num(0)
              /\ ret.value.maxDrawdown = Num(0)
              /\ ret.value.volatility = Num(0)
              /\ ret.value.downsideDeviation = Num(0)
              /\ ret.value.sortinioRatio = Num(0)
        /\ ret.fn = "drawdown" =>
              /\ IsZeroSentinel(ret.value.maxDrawdown)
              /\ ret.value.allDrawdowns = <<>>
              /\ ret.value.averageDrawdown = Num(0)
              /\ ret.value.averageRecoveryTime = Num(0)
              /\ ret.value.currentDrawdown = <<>>
        /\ ret.fn = "benchmarks" => ret.value = <<>>

\* calculateRiskMetrics has returned for a single record
C6_Witness ==
    /\ Len(data) = 1
    /\ ret.fn = "risk"
    /\ ret.value.volatility = Num(0)

\* C7: no engine performs a division by zero on a record sequence such as the
\* parser outputs, so that no number an engine returns is NaN or an infinity
C7_NoDivisionByZero ==
    \A x \in ReturnedNumbers : x.k \notin {"nan", "inf", "nonfin"}

\* the earliest of the first n records that attains their highest share value
PeakIndex(records, n) ==
    CHOOSE j \in 1..n :
        /\ \A l \in 1..n : ~JsGt(records[l].shareValue, records[j].shareValue)
        /\ \A l \in 1..(j - 1) : JsLt(records[l].shareValue, records[j].shareValue)

\* the decline of record j from record p, in percent
DeclinePercent(records, p, j) ==
    JsMul(JsDiv(JsSub(records[p].shareValue, records[j].shareValue), records[p].shareValue),
          Num(100))

\* an episode is open after the first n records: some record after their peak
\* is more than 0.1% below it
EpisodeOpen(records, n) ==
    \E j \in (PeakIndex(records, n) + 1)..n :
        JsGt(DeclinePercent(records, PeakIndex(records, n), j), Fin(1, 10))

\* the earliest of the records p+1..n that attains their lowest share value
TroughIndex(records, p, n) ==
    CHOOSE j \in (p + 1)..n :
        /\ \A l \in (p + 1)..n : ~JsLt(records[l].shareValue, records[j].shareValue)
        /\ \A l \in (p + 1)..(j - 1) : JsGt(records[l].shareValue, records[j].shareValue)

\* the period x is the episode of the first n records, recovered at record n + 1
IsRecoveredEpisode(x, records, n) ==
    /\ x.startDate = records[PeakIndex(records, n)].date
    /\ x.peakValue = records[PeakIndex(records, n)].shareValue
    /\ x.endDate = records[TroughIndex(records, PeakIndex(records, n), n)].date
    /\ x.troughValue = records[TroughIndex(records, PeakIndex(records, n), n)].shareValue
    /\ x.recoveryDate = <<records[n + 1].date>>

C9_OpenEpisodeIsCurrentDrawdown ==
    ret.fn = "drawdown" =>
        IF Len(data) >= 2 /\ EpisodeOpen(data, Len(data))
        THEN /\ Len(ret.value.currentDrawdown) = 1
             /\ ret.value.currentDrawdown[1].recoveryDate = <<>>
             /\ ret.value.currentDrawdown[1].recoveryDays = Undefined
             /\ Len(ret.value.allDrawdowns) >= 1
             /\ ret.value.allDrawdowns[Len(ret.value.allDrawdowns)]
                    = ret.value.currentDrawdown[1]
        ELSE /\ ret.value.currentDrawdown = <<>>
             /\ \A j \in 1..Len(ret.value.allDrawdowns) :
                    /\ Len(ret.value.allDrawdowns[j].recoveryDate) = 1
                    /\ ret.value.allDrawdowns[j].recoveryDate[1] # ""

\* a recovered episode and an open one have been returned
C9_Witness ==
    /\ ret.fn = "drawdown"
    /\ Len(ret.value.allDrawdowns) = 2
    /\ Len(ret.value.currentDrawdown) = 1
    /\ ret.value.allDrawdowns[1].recoveryDate # <<>>

\* the share value never decreases from one record to the next
NonDecreasing(records) ==
    \A i \in 2..Len(records) : ~JsLt(records[i].shareValue, records[i - 1].shareValue)

\* C10: for a record sequence whose shareValue never decreases,
\* calculateRiskMetrics returns maxDrawdown 0 and calculateDrawdownAnalysis
\* returns an empty allDrawdowns, no currentDrawdown and the zero-valued
\* maxDrawdown
C10_NonDecreasingHasNoDrawdown ==
    NonDecreasing(data) =>
        /\ ret.fn = "risk" => ret.value.maxDrawdown = Num(0)
        /\ ret.fn = "drawdown" =>
              /\ ret.value.allDrawdowns = <<>>
              /\ ret.value.currentDrawdown = <<>>
              /\ IsZeroSentinel(ret.value.maxDrawdown)

\* the analysis has returned for a series that rises and also stays level
C10_Witness ==
    /\ Len(data) >= 3
    /\ NonDecreasing(data)
    /\ \E i \in 2..Len(data) : data[i].shareValue = data[i - 1].shareValue
    /\ \E i \in 2..Len(data) : JsGt(data[i].shareValue, data[i - 1].shareValue)
    /\ ret.fn = "drawdown"
    /\ ret.value.allDrawdowns = <<>>

\* the period x has record p as its peak and record o as the record that opens
\* it: the records between them are neither above the peak nor more than 0.1%
\* below it, record o is more than 0.1% below it, and x either is open with
\* the series ending at record e, or has recovered at record e + 1, the first
\* to exceed the peak
IsEpisodeOver(x, records, p, o, e) ==
    /\ x.startDate = records[p].date
    /\ x.peakValue = records[p].shareValue
    /\ \A j \in (p + 1)..(o - 1) :
          /\ ~JsGt(records[j].shareValue, records[p].shareValue)
          /\ ~JsGt(DeclinePercent(records, p, j), Fin(1, 10))
    /\ JsGt(DeclinePercent(records, p, o), Fin(1, 10))
    /\ \/ e = Len(records) /\ x.recoveryDate = <<>>
       \/ /\ e < Len(records)
          /\ x.recoveryDate = <<records[e + 1].date>>
          /\ JsGt(records[e + 1].shareValue, records[p].shareValue)

\* every record from o to e is more than 0.1% below record p
StaysBelowThreshold(records, p, o, e) ==
    \A j \in o..e : JsGt(DeclinePercent(records, p, j), Fin(1, 10))

\* no record from o to e is above record p
StaysAtOrBelowPeak(records, p, o, e) ==
    \A j \in o..e : ~JsGt(records[j].shareValue, records[p].shareValue)

\* C11 as stated: every episode that calculateDrawdownAnalysis returns is a
\* maximal interval of records, from the one that opens it up to but excluding
\* the recovery record (or up to the end of the series), each of which has a
\* shareValue more than 0.1% below the episode's peakValue
C11_EpisodeStaysBelowThreshold ==
    ret.fn = "drawdown" =>
        \A k \in 1..Len(ret.value.allDrawdowns) :
            \E p \in 1..Len(data) : \E o \in (p + 1)..Len(data) : \E e \in o..Len(data) :
                /\ IsEpisodeOver(ret.value.allDrawdowns[k], data, p, o, e)
                /\ StaysBelowThreshold(data, p, o, e)

\* C11 amended: every episode that calculateDrawdownAnalysis returns is a
\* maximal interval of records, from the one that opens it up to but excluding
\* the recovery record (or up to the end of the series), none of which has a
\* shareValue above the episode's peakValue, the record that opens it being
\* more than 0.1% below the peakValue
C11_EpisodeStaysAtOrBelowPeak ==
    ret.fn = "drawdown" =>
        \A k \in 1..Len(ret.value.allDrawdowns) :
            \E p \in 1..Len(data) : \E o \in (p + 1)..Len(data) : \E e \in o..Len(data) :
                /\ IsEpisodeOver(ret.value.allDrawdowns[k], data, p, o, e)
                /\ StaysAtOrBelowPeak(data, p, o, e)

\* the analysis of the series 100, 90, 100, 110 has returned its one episode,
\* which holds the third record, level with the peak
C11_Witness ==
    /\ ret.fn = "drawdown"
    /\ ShareValues(data) = <<Num(100), Num(90), Num(100), Num(110)>>
    /\ Len(ret.value.allDrawdowns) = 1
    /\ ret.value.allDrawdowns[1].peakValue = Num(100)
    /\ ret.value.allDrawdowns[1].recoveryDate = <<data[4].date>>

\* C12: the maxDrawdown that calculateDrawdownAnalysis returns is the element
\* of allDrawdowns with the largest drawdownPercent, the earliest of them when
\* several have it, and it is the zero-valued period with empty dates exactly
\* when allDrawdowns is empty
C12_MaxDrawdownIsEarliestLargest ==
    ret.fn = "drawdown" =>
        IF ret.value.allDrawdowns = <<>>
        THEN IsZeroSentinel(ret.value.maxDrawdown)
        ELSE /\ ~IsZeroSentinel(ret.value.maxDrawdown)
             /\ \E k \in 1..Len(ret.value.allDrawdowns) :
                   /\ ret.value.maxDrawdown = ret.value.allDrawdowns[k]
                   /\ \A l \in 1..Len(ret.value.allDrawdowns) :
                         ~JsGt(ret.value.allDrawdowns[l].drawdownPercent,
                               ret.value.allDrawdowns[k].drawdownPercent)
                   /\ \A l \in 1..(k - 1) :
                         JsLt(ret.value.allDrawdowns[l].drawdownPercent,
                              ret.value.allDrawdowns[k].drawdownPercent)

\* two different episodes of the same drawdownPercent have been returned, the
\* first of them as maxDrawdown
C12_Witness ==
    /\ ret.fn = "drawdown"
    /\ Len(ret.value.allDrawdowns) = 2
    /\ ret.value.allDrawdowns[1] # ret.value.allDrawdowns[2]
    /\ ret.value.allDrawdowns[1].drawdownPercent = ret.value.allDrawdowns[2].drawdownPercent
    /\ ret.value.maxDrawdown = ret.value.allDrawdowns[1]

\* the elements of a sequence of periods that have a recovery date
ClosedEpisodes(periods) == SelectSeq(periods, LAMBDA p : p.recoveryDate # <<>>)

\* the mean of a non-empty sequence of numbers
RECURSIVE Total(_)
Total(xs) == IF xs = <<>> THEN Num(0) ELSE JsAdd(Total(SubSeq(xs, 1, Len(xs) - 1)), xs[Len(xs)])

MeanOf(xs) == JsDiv(Total(xs), Num(Len(xs)))

\* C13: the averageRecoveryTime that calculateDrawdownAnalysis returns is the
\* mean, rounded to a whole number, of recoveryDays over exactly the episodes
\* that have a recovery date, and 0 when there is none; the averageDrawdown is
\* the mean of drawdownPercent over all the episodes, open and closed
C13_AverageRecoveryOverClosedOnly ==
    ret.fn = "drawdown" =>
        /\ ret.value.averageRecoveryTime =
              IF ClosedEpisodes(ret.value.allDrawdowns) = <<>> THEN Num(0)
              ELSE ToFixed(MeanOf([j \in 1..Len(ClosedEpisodes(ret.value.allDrawdowns)) |->
                                      ClosedEpisodes(ret.value.allDrawdowns)[j].recoveryDays]), 0)
        /\ ret.value.allDrawdowns # <<>> =>
              ret.value.averageDrawdown =
                  ToFixed(MeanOf([j \in 1..Len(ret.value.allDrawdowns) |->
                                     ret.value.allDrawdowns[j].drawdownPercent]), 2)

\* two recovered episodes and an open one have been returned, with different
\* recovery times
C13_Witness ==
    /\ ret.fn = "drawdown"
    /\ Len(ret.value.allDrawdowns) = 3
    /\ Len(ClosedEpisodes(ret.value.allDrawdowns)) = 2
    /\ ret.value.allDrawdowns[3].recoveryDate = <<>>
    /\ ret.value.allDrawdowns[1].recoveryDays # ret.value.allDrawdowns[2].recoveryDays
    /\ JsGt(ret.value.averageRecoveryTime, Num(0))

\* the calendar year of a date 'YYYY-MM-DD'
CalendarYear(date) == Num(DigitsValue(SubSeq(date, 1, 4)))

\* the calendar years of the records
YearsPresent(records) == {CalendarYear(records[i].date) : i \in 1..Len(records)}

\* the positions of the records of calendar year y
RecordsOfYear(records, y) == {i \in 1..Len(records) : CalendarYear(records[i].date) = y}

FirstOfYear(records, y) ==
    CHOOSE i \in RecordsOfYear(records, y) : \A l \in RecordsOfYear(records, y) : i <= l

LastOfYear(records, y) ==
    CHOOSE i \in RecordsOfYear(records, y) : \A l \in RecordsOfYear(records, y) : i >= l

\* the entry is computed from the first and the last record of its year
IsEntryOfYear(entry, records) ==
    /\ entry.year \in YearsPresent(records)
    /\ entry.fundReturn = PercentChange(records[LastOfYear(records, entry.year)].shareValue,
                                        records[FirstOfYear(records, entry.year)].shareValue)
    /\ entry.shaReturn = PercentChange(records[LastOfYear(records, entry.year)].sha,
                                       records[FirstOfYear(records, entry.year)].sha)
    /\ entry.sheReturn = PercentChange(records[LastOfYear(records, entry.year)].she,
                                       records[FirstOfYear(records, entry.year)].she)
    /\ entry.csi300Return = PercentChange(records[LastOfYear(records, entry.year)].csi300,
                                          records[FirstOfYear(records, entry.year)].csi300)

\* C14: calculateAnnualReturns returns exactly one entry for each calendar year
\* of the input, the years strictly ascending, each entry computed from the
\* first and the last record of its year in input order; records of 1.0 and
\* 1.1 in 2014 and of 1.1 and 1.2 in 2015 give 10.00% and 9.09%
C14_OneEntryPerCalendarYear ==
    ret.fn = "annual" =>
        /\ Len(ret.value) = Cardinality(YearsPresent(data))
        /\ \A j \in 1..Len(ret.value) : IsEntryOfYear(ret.value[j], data)
        /\ \A j \in 1..(Len(ret.value) - 1) : JsLt(ret.value[j].year, ret.value[j + 1].year)
        /\ (/\ ShareValues(data) = <<Num(1), Fin(11, 10), Fin(11, 10), Fin(6, 5)>>
            /\ [i \in 1..4 |-> CalendarYear(data[i].date)]
                  = <<Num(2014), Num(2014), Num(2015), Num(2015)>>)
           => /\ Len(ret.value) = 2
              /\ ret.value[1].year = Num(2014)
              /\ ToFixed(ret.value[1].fundReturn, 2) = Num(10)
              /\ ret.value[2].year = Num(2015)
              /\ ToFixed(ret.value[2].fundReturn, 2) = Fin(909, 100)

\* C15: for every calendar year that has exactly one record in the input,
\* calculateAnnualReturns returns an entry whose fundReturn, shaReturn,
\* sheReturn and csi300Return are 0, the record's benchmark levels being 0 or
\* not
C15_SingleRecordYearIsZero ==
    ret.fn = "annual" =>
        \A y \in YearsPresent(data) :
            Cardinality(RecordsOfYear(data, y)) = 1 =>
                \E j \in 1..Len(ret.value) :
                    /\ ret.value[j].year = y
                    /\ ret.value[j].fundReturn = Num(0)
                    /\ ret.value[j].shaReturn = Num(0)
                    /\ ret.value[j].sheReturn = Num(0)
                    /\ ret.value[j].csi300Return = Num(0)

----------------------------------------------------------------------------
(* Properties of calculateCorrelation, checked under SpecStatistics *)

\* the first n elements of a sequence
Truncated(xs, n) == SubSeq(xs, 1, n)

\* C16: calculateCorrelation of two sequences returns what it returns for the
\* two sequences cut to the shorter length n, so that the elements of the
\* longer sequence from position n on have no influence on the result, and it
\* returns 0 when n = 0
C16_CorrelationOfTruncated ==
    ret.fn = "correlation" =>
        /\ ret.value.result =
              CalculateCorrelation(
                  Truncated(ret.value.values1, Min(Len(ret.value.values1), Len(ret.value.values2))),
                  Truncated(ret.value.values2, Min(Len(ret.value.values1), Len(ret.value.values2))))
        /\ Min(Len(ret.value.values1), Len(ret.value.values2)) = 0 => ret.value.result = Num(0)

\* all the elements of the sequence are equal
IsConstant(xs) == \A i \in 1..Len(xs) : xs[i] = xs[1]

\* C17: calculateCorrelation of a sequence that is not constant with itself
\* returns 1, and calculateCorrelation returns 0, and no NaN, whenever one of
\* its arguments is constant
C17_SelfCorrelationAndConstants ==
    ret.fn = "correlation" =>
        /\ (ret.value.values1 = ret.value.values2 /\ ~IsConstant(ret.value.values1))
              => ret.value.result = Num(1)
        /\ (IsConstant(ret.value.values1) \/ IsConstant(ret.value.values2))
              => ret.value.result = Num(0)

----------------------------------------------------------------------------
(* Properties of calculateBenchmarkComparisons, checked under SpecEngine *)

\* the benchmark levels of the j-th entry of calculateBenchmarkComparisons
BenchmarkValues(records, j) ==
    CASE j = 1 -> ShaValues(records)
      [] j = 2 -> SheValues(records)
      [] j = 3 -> Csi300Values(records)

\* the period returns that enter beta and the tracking error: those of the
\* first n periods, n the smaller of the two numbers of returns
ComparedReturns(values, portfolioValues, benchmarkValues) ==
    Truncated(CalculateReturns(values),
              Min(Len(CalculateReturns(portfolioValues)), Len(CalculateReturns(benchmarkValues))))

\* C18: in every entry that calculateBenchmarkComparisons returns, the
\* informationRatio is 0 whenever the tracking error is exactly 0, and so
\* whenever the portfolio's period returns equal the benchmark's in every
\* period, and the beta is 0 whenever the benchmark's period returns have zero
\* variance (are all equal)
C18_ZeroTrackingErrorAndVariance ==
    ret.fn = "benchmarks" =>
        \A j \in 1..Len(ret.value) :
            /\ CalculateTrackingError(CalculateReturns(ShareValues(data)),
                                      CalculateReturns(BenchmarkValues(data, j))) = Num(0)
                  => ret.value[j].informationRatio = Num(0)
            /\ ComparedReturns(ShareValues(data), ShareValues(data), BenchmarkValues(data, j))
                  = ComparedReturns(BenchmarkValues(data, j), ShareValues(data),
                                    BenchmarkValues(data, j))
                  => ret.value[j].informationRatio = Num(0)
            /\ IsConstant(ComparedReturns(BenchmarkValues(data, j), ShareValues(data),
                                          BenchmarkValues(data, j)))
                  => ret.value[j].beta = Num(0)

----------------------------------------------------------------------------
(* Further properties of the parser, checked under SpecParser *)

ChronologicalWarning ==
    "Data is not in chronological order - this may affect analysis accuracy"

\* year, month and day of a date 'YYYY-MM-DD' as one number
CalendarKey(date) ==
    DigitsValue(SubSeq(date, 1, 4)) * 10000 + DigitsValue(SubSeq(date, 6, 7)) * 100
        + DigitsValue(SubSeq(date, 9, 10))

\* the date a is earlier than the date b
DateEarlier(a, b) == IsoShape(a) /\ IsoShape(b) /\ CalendarKey(a) < CalendarKey(b)

\* some record's date is earlier than its predecessor's
HasInversion(records) ==
    \E i \in 2..Len(records) : DateEarlier(records[i].date, records[i - 1].date)

\* the number of occurrences of msg in msgs
Occurrences(msgs, msg) == Cardinality({i \in 1..Len(msgs) : msgs[i] = msg})

\* C19: parseCSVWithValidation keeps the accepted records in the order of
\* their rows (a record is only ever appended, by the step that processes its
\* row), and its warnings hold the 'not in chronological order' warning once
\* when some accepted record's date is earlier than its predecessor's, however
\* many times that happens, and not at all otherwise
C19_ChronologicalWarningOnce ==
    /\ [][\/ data' = data
          \/ /\ AtRow
             /\ Len(data') = Len(data) + 1
             /\ SubSeq(data', 1, Len(data)) = data
             /\ data'[Len(data')].date = ParseRowDate(CurrentValues[1], rowIdx + 3).date]_vars
    /\ [](ppc = "rows" => Occurrences(warnings, ChronologicalWarning) = 0)
    /\ [](ppc \in {"parsed", "done"} =>
            Occurrences(warnings, ChronologicalWarning)
                = IF HasInversion(data) THEN 1 ELSE 0)

\* rows with a field in accounting style, field by field: 1,234.50 as share
\* value, (1) as shares, (1,234.50) and (1 2.5) as gain/loss
AccountingRows ==
    { <<"02/01/2020", "1", "1", "1", "1", "1,234.50", "0", "0", "1", "1">>,
      <<"1/1/2019", "0", "0", "0", "(1)", "1.2", "0", "0", "1", "1">>,
      <<"02/01/2020", "1", "1", "1", "1", "1.5", "(1,234.50)", "0", "1", "1">>,
      <<"02/01/2020", "1", "1", "1", "1", "1.5", "(1 2.5)", "0", "1", "1">> }

\* the number that a field in accounting style stands for
AccountingValue(field) ==
    IF field = "" THEN Num(0)
    ELSE IF Includes(field, "(") THEN JsNeg(ParseFloat(StripAccounting(field)))
    ELSE ParseFloat(StripAccounting(field))

\* the nine numbers of a record, in field order
NumericFields(record) ==
    <<record.sha, record.she, record.csi300, record.shares, record.shareValue,
      record.gainLoss, record.dailyGain, record.marketValue, record.principle>>

\* C20: a row with a numeric field in accounting style yields a record in
\* which that field has its numeric value, commas and whitespace inside it
\* removed and parentheses negating it (1234.5 for 1,234.50 and -1234.5 for
\* (1,234.50)), and the other fields have theirs
C20_AccountingFieldsAreParsed ==
    [][\A fields \in AccountingRows :
          (AtRow /\ CurrentLine = Join(fields, ","))
             => /\ Len(data') = Len(data) + 1
                /\ NumericFields(data'[Len(data')])
                      = [i \in 1..9 |-> AccountingValue(fields[i + 1])]]_vars

----------------------------------------------------------------------------
(* dateUtils: parsePortfolioDate and formatDateForAPI.  A Date built by    *)
(* new Date(year, month, day) is kept as its local calendar fields, the    *)
(* ones getFullYear, getMonth (0-based) and getDate read back; the local   *)
(* calendar is taken to have every day of the Gregorian calendar.          *)

NullDate == [null |-> TRUE, year |-> 0, month |-> 0, date |-> 0]

\* new Date(year, month, day) for month in 0..11 and day in 1..31: a day the
\* month does not have counts on into the next month
LocalDate(year, month, day) ==
    LET last == DaysInMonth(year, month + 1)
    IN IF day <= last
       THEN [null |-> FALSE, year |-> year, month |-> month, date |-> day]
       ELSE [null |-> FALSE, year |-> year, month |-> month + 1, date |-> day - last]

\* the range validation and the read-back verification, the parts being parsed
ValidatedDate(day, month, year) ==
    IF \/ day.k = "nan" \/ month.k = "nan" \/ year.k = "nan"
       \/ JsLt(day, Num(1)) \/ JsGt(day, Num(31))
       \/ JsLt(month, Num(0)) \/ JsGt(month, Num(11))
       \/ JsLt(year, Num(1900)) \/ JsGt(year, Num(2100))
    THEN NullDate
    ELSE LET date == LocalDate(year.n, month.n, day.n)
         IN IF date.date # day.n \/ date.month # month.n \/ date.year # year.n
            THEN NullDate
            ELSE date

DateOfParts(dateParts) ==
    IF Len(dateParts) # 3 THEN NullDate
    ELSE ValidatedDate(ParseInt(dateParts[1]),
                       JsSub(ParseInt(dateParts[2]), Num(1)),
                       ParseInt(dateParts[3]))

ParsePortfolioDate(dateStr) ==
    IF dateStr = "" THEN NullDate
    ELSE DateOfParts(Split(Trim(dateStr), "/"))

FormatDateForAPI_MonthFromZero(date) ==
    ToString(date.year) \o "-" \o PadStart2(ToString(date.month))
    \o "-" \o PadStart2(ToString(date.date))

FormatDateForAPI(date) ==
    ToString(date.year) \o "-" \o PadStart2(ToString(date.month + 1))
    \o "-" \o PadStart2(ToString(date.date))

----------------------------------------------------------------------------
(* dateUtils as a state machine: parsePortfolioDate is called on a string, *)
(* and formatDateForAPI on the Date it returned; ret holds the arguments   *)
(* with the result.                                                        *)

DayTexts == {"00", "01", "28", "29", "30", "31", "32"}

MonthTexts == {"00", "01", "02", "04", "12", "13"}

YearTexts == {"1899", "1900", "2000", "2019", "2020", "2100", "2101"}

OtherDateTexts ==
    {"", "invalid", "2014/01/20", "20/01/2014", "32/01/2014", "1/2/2014",
     " 20/01/2014 ", "20/01/2014/", "20/01", "20-01-2014", "20/01/2014abc",
     "20.5/01/2014", "/01/2014", "20/x/2014"}

DateTexts ==
    {d \o "/" \o mo \o "/" \o y : d \in DayTexts, mo \in MonthTexts, y \in YearTexts}
    \cup OtherDateTexts

DatesInit ==
    /\ dateRollover = FALSE
    /\ mpc = "off"
    /\ mx = NoMarket
    /\ data = <<>>
    /\ csvText = ""
    /\ ppc = "off"
    /\ lines = <<>>
    /\ rowIdx = 0
    /\ errors = <<>>
    /\ warnings = <<>>
    /\ outcome = NoOutcome
    /\ epc = "idle"
    /\ dd = NoLoop
    /\ ret = NoRet

CallParsePortfolioDate ==
    /\ epc = "idle"
    /\ ret = NoRet
    /\ \E dateStr \in DateTexts :
          ret' = [fn |-> "parsePortfolioDate",
                  value |-> [dateStr |-> dateStr, result |-> ParsePortfolioDate(dateStr)]]
    /\ UNCHANGED <<marketVars, dateRollover, parserVars, epc, dd>>

CallFormatDateForAPI ==
    /\ epc = "idle"
    /\ ret.fn = "parsePortfolioDate"
    /\ ~ret.value.result.null
    /\ ret' = [fn |-> "formatDateForAPI",
               value |-> [dateStr |-> ret.value.dateStr, date |-> ret.value.result,
                          result |-> FormatDateForAPI(ret.value.result)]]
    /\ UNCHANGED <<marketVars, dateRollover, parserVars, epc, dd>>

DatesNext ==
    \/ CallParsePortfolioDate
    \/ CallFormatDateForAPI
    \/ ReturnConsumed

SpecDates == DatesInit /\ [][DatesNext]_vars

----------------------------------------------------------------------------
(* Properties of dateUtils, checked under SpecDates *)

\* the "/"-separated parts of a text, surrounding white space apart
SlashFields(s) == Split(Trim(s), "/")

\* a text of the form D/M/Y: one or two digits, one or two digits, four digits
IsSlashDateText(s) ==
    /\ Len(SlashFields(s)) = 3
    /\ \A i \in 1..3 : AllDigits(SlashFields(s)[i])
    /\ Len(SlashFields(s)[1]) \in 1..2
    /\ Len(SlashFields(s)[2]) \in 1..2
    /\ Len(SlashFields(s)[3]) = 4

\* a D/M/Y text that names a day of the Gregorian calendar of 1900..2100
IsCalendarDateText(s) ==
    /\ IsSlashDateText(s)
    /\ LET day   == DigitsValue(SlashFields(s)[1])
           month == DigitsValue(SlashFields(s)[2])
           year  == DigitsValue(SlashFields(s)[3])
       IN /\ year \in 1900..2100
          /\ month \in 1..12
          /\ day \in 1..31
          /\ day <= (IF month = 2
                     THEN (IF year % 400 = 0 \/ (year % 4 = 0 /\ year % 100 # 0)
                           THEN 29 ELSE 28)
                     ELSE IF month \in {4, 6, 9, 11} THEN 30 ELSE 31)

\* C21: parsePortfolioDate returns a date exactly for the DD/MM/YYYY texts
\* that name a real day of 1900..2100 (29/02 in leap years only), and null
\* for every other text.
C21_DateIffCalendarDate ==
    ret.fn = "parsePortfolioDate" =>
        (~ret.value.result.null <=> IsCalendarDateText(ret.value.dateStr))

\* the part of C21 that the code meets: on the texts of the form D/M/Y the
\* result is a date exactly for the real days
DateIffCalendarDateOnSlashTexts ==
    (ret.fn = "parsePortfolioDate" /\ IsSlashDateText(ret.value.dateStr)) =>
        (~ret.value.result.null <=> IsCalendarDateText(ret.value.dateStr))

\* C22: formatDateForAPI of the date parsed from an accepted DD/MM/YYYY text
\* is YYYY-MM-DD with the year, month and day of the text, month and day
\* padded to two digits.
C22_FormatOfParsedIsCanonical ==
    ret.fn = "formatDateForAPI" =>
        /\ IsCanonicalDate(ret.value.result)
        /\ IsSlashDateText(ret.value.dateStr) =>
              ret.value.result =
                  SlashFields(ret.value.dateStr)[3]
                  \o "-" \o ZeroPad(SlashFields(ret.value.dateStr)[2], 2)
                  \o "-" \o ZeroPad(SlashFields(ret.value.dateStr)[1], 2)

\* 1/2/2014 has been parsed and formatted to 2014-02-01
C22_Witness ==
    /\ ret.fn = "formatDateForAPI"
    /\ ret.value.dateStr = "1/2/2014"
    /\ ret.value.result = "2014-02-01"

----------------------------------------------------------------------------
(* Properties of the engines as a whole, checked under SpecEngine *)

\* the values the engine named fn can return for the records, one for each
\* local time zone of the environment
ResultsAlone(fn, records) ==
    CASE fn = "overall" -> {CalculateOverallMetrics(records)}
      [] fn = "annual" -> {CalculateAnnualReturns(records, zone) : zone \in TimeZones}
      [] fn = "correlations" -> {CalculateCorrelations(records)}
      [] fn = "risk" -> {CalculateRiskMetrics(records)}
      [] fn = "benchmarks" -> {CalculateBenchmarkComparisons(records)}
      [] fn = "drawdown" -> {CalculateDrawdownAnalysis(records)}

RECURSIVE ReturnPeriods(_, _)
ReturnPeriods(values, n) ==
    IF n < 1 THEN <<>>
    ELSE ReturnPeriods(values, n - 1)
         \o (IF n < Len(values) /\ ~IsZero(values[n]) THEN <<n>> ELSE <<>>)

\* C25: in calculateBenchmarkComparisons, the portfolio return and the
\* benchmark return that calculateBeta and calculateTrackingError pair at an
\* index are returns over the same two consecutive records, benchmark levels
\* of 0 included.
C25_PairedReturnsSharePeriod ==
    (ret.fn = "benchmarks" /\ Len(data) >= 2) =>
        \A j \in 1..3 :
            LET portfolioPeriods == ReturnPeriods(ShareValues(data), Len(data))
                benchmarkPeriods == ReturnPeriods(BenchmarkValues(data, j), Len(data))
            IN /\ Len(portfolioPeriods) = Len(CalculateReturns(ShareValues(data)))
               /\ Len(benchmarkPeriods) = Len(CalculateReturns(BenchmarkValues(data, j)))
               /\ \A i \in 1..Min(Len(portfolioPeriods), Len(benchmarkPeriods)) :
                     portfolioPeriods[i] = benchmarkPeriods[i]

\* the largest peak-to-value decline, in percent and unrounded, that the
\* loop of calculateRiskMetrics finds
LargestDecline(records) == RiskDrawdownLoop(records, Len(records) - 1).maxDrawdown

\* the largest of the drawdownPercent of the episodes, 0 if there is none
RECURSIVE LargestEpisodePercent(_)
LargestEpisodePercent(periods) ==
    IF Len(periods) = 0 THEN Num(0)
    ELSE LET rest == LargestEpisodePercent(Tail(periods))
         IN IF JsGt(periods[1].drawdownPercent, rest) THEN periods[1].drawdownPercent ELSE rest

\* C26: for at least 2 records, when the largest decline found by
\* calculateRiskMetrics exceeds 0.1% its reported figure equals the largest
\* drawdownPercent of the episodes of calculateDrawdownAnalysis (which is that
\* of its maxDrawdown), and when it is at most 0.1% there is no episode.
C26_DrawdownFiguresAgree ==
    (Len(data) >= 2 /\ ret.fn \in {"risk", "drawdown"}) =>
        LET risk == IF ret.fn = "risk" THEN ret.value ELSE CalculateRiskMetrics(data)
            analysis == IF ret.fn = "drawdown" THEN ret.value
                        ELSE CalculateDrawdownAnalysis(data)
        IN /\ risk.maxDrawdown = ToFixed(LargestDecline(data), 2)
           /\ IF JsGt(LargestDecline(data), Fin(1, 10))
              THEN /\ Len(analysis.allDrawdowns) >= 1
                   /\ LargestEpisodePercent(analysis.allDrawdowns) = risk.maxDrawdown
                   /\ analysis.maxDrawdown.drawdownPercent = risk.maxDrawdown
              ELSE /\ analysis.allDrawdowns = <<>>
                   /\ IsZeroSentinel(analysis.maxDrawdown)

\* calculateDrawdownAnalysis has returned two episodes, the later one the
\* deeper, and calculateRiskMetrics reports the same figure
C26_Witness ==
    /\ ret.fn = "drawdown"
    /\ Len(ret.value.allDrawdowns) = 2
    /\ JsGt(ret.value.allDrawdowns[2].drawdownPercent, ret.value.allDrawdowns[1].drawdownPercent)
    /\ CalculateRiskMetrics(data).maxDrawdown = ret.value.allDrawdowns[2].drawdownPercent

\* the periods are, in this order, episodes of the records from record `from`
\* on, none of which starts before the recovery record of the one before it,
\* and only the last of which can be open
RECURSIVE AreSuccessiveEpisodes(_, _, _)
AreSuccessiveEpisodes(periods, records, from) ==
    IF Len(periods) = 0 THEN TRUE
    ELSE \E p \in from..Len(records) : \E o \in (p + 1)..Len(records) :
         \E e \in o..Len(records) :
            /\ IsEpisodeOver(periods[1], records, p, o, e)
            /\ StaysAtOrBelowPeak(records, p, o, e)
            /\ Len(periods) > 1 => periods[1].recoveryDate # <<>>
            /\ AreSuccessiveEpisodes(Tail(periods), records, e + 1)

\* C27: the episodes of allDrawdowns are in the order in which they occur in
\* the series, the peak record of each is the recovery record of the one
\* before it or a later record, at most one episode has no recoveryDate, and
\* such an episode is the last element.
C27_EpisodesInOrderWithoutOverlap ==
    ret.fn = "drawdown" =>
        /\ AreSuccessiveEpisodes(ret.value.allDrawdowns, data, 1)
        /\ \A k \in 1..(Len(ret.value.allDrawdowns) - 1) :
              ret.value.allDrawdowns[k].recoveryDate # <<>>
        /\ Cardinality({k \in 1..Len(ret.value.allDrawdowns) :
                           ret.value.allDrawdowns[k].recoveryDate = <<>>}) <= 1

\* three episodes have been returned for six records on six days, the last
\* one open
C27_Witness ==
    /\ ret.fn = "drawdown"
    /\ Len(data) = 6
    /\ \A i \in 1..5 : DateEarlier(data[i].date, data[i + 1].date)
    /\ Len(ret.value.allDrawdowns) = 3
    /\ ret.value.allDrawdowns[1].recoveryDate = <<data[3].date>>
    /\ ret.value.allDrawdowns[2].startDate = data[3].date
    /\ ret.value.allDrawdowns[3].recoveryDate = <<>>

----------------------------------------------------------------------------
(* calculateDrawdownAnalysis in floating point.  Above, the decline of a   *)
(* record from the peak is the exact quotient; the code computes it in     *)
(* floating point, where two share values that differ in their last bits   *)
(* can give the same percentage.  Here the loop runs on share values that  *)
(* are floating-point numbers of MantissaBits bits, its percentage rounded *)
(* after each operation.                                                   *)

\* ((currentPeak - currentValue) / currentPeak) * 100
PercentOfFloats(currentPeak, currentValue) ==
    FlMul(FlDiv(FlSub(currentPeak, currentValue), currentPeak), Num(100))

\* one iteration of the loop of calculateDrawdownAnalysis
IterationOfFloats(st, records) ==
    IF JsGt(records[st.i + 1].shareValue, st.currentPeak)
    THEN OnNewPeak(st, records, records[st.i + 1].shareValue, records[st.i + 1].date)
    ELSE OnDecline(st, PercentOfFloats(st.currentPeak, records[st.i + 1].shareValue))

\* 100 - 65/64 and 100 - 1 round to the same number, with MantissaBits bits
\* as 100 - 1.0000000000000002 and 100 - 1 do with the 53 bits of a double
CloseShareValueLevels == {Num(100), Fin(65, 64), Num(1), Num(200)}

CloseRecordSequences ==
    {RecordsOf(values, "ascending", "live") :
        values \in SeqsUpTo(CloseShareValueLevels, MaxRecords)}

FloatDrawdownInit ==
    /\ dateRollover = FALSE
    /\ mpc = "off"
    /\ mx = NoMarket
    /\ data \in CloseRecordSequences
    /\ csvText = ""
    /\ ppc = "off"
    /\ lines = <<>>
    /\ rowIdx = 0
    /\ errors = <<>>
    /\ warnings = <<>>
    /\ outcome = NoOutcome
    /\ epc = "idle"
    /\ dd = NoLoop
    /\ ret = NoRet

\* one iteration of the loop
FloatDrawdownStep ==
    /\ epc = "drawdown"
    /\ dd.i < Len(data)
    /\ dd' = IterationOfFloats(dd, data)
    /\ UNCHANGED <<marketVars, dateRollover, parserVars, epc, ret>>

FloatDrawdownNext ==
    \/ DrawdownBegin
    \/ FloatDrawdownStep
    \/ DrawdownFinish
    \/ ReturnConsumed

SpecFloatDrawdown == FloatDrawdownInit /\ [][FloatDrawdownNext]_vars

----------------------------------------------------------------------------
(* Properties of the episodes, checked under SpecFloatDrawdown (and, the   *)
(* arithmetic being exact, under SpecEngine)                               *)

\* the records have positive share values and strictly ascending real dates
IsAscendingSeries(records) ==
    /\ \A i \in 1..Len(records) :
          /\ JsGt(records[i].shareValue, Num(0))
          /\ IsCanonicalDate(records[i].date)
    /\ \A i \in 2..Len(records) : DateEarlier(records[i - 1].date, records[i].date)

\* the period x, the episode of the records p (peak) to e, has the bounds
\* that C28 states
HasEpisodeBounds(x, records, p, e) ==
    /\ JsGt(x.troughValue, Num(0))
    /\ JsLt(x.troughValue, x.peakValue)
    /\ JsGt(JsMul(JsDiv(JsSub(x.peakValue, x.troughValue), x.peakValue), Num(100)),
            Fin(1, 10))
    /\ JsLt(JsMul(JsDiv(JsSub(x.peakValue, x.troughValue), x.peakValue), Num(100)),
            Num(100))
    /\ ~JsLt(x.durationDays, Num(1))
    /\ x.recoveryDate # <<>> => ~JsLt(x.recoveryDays, Num(1))

\* the period x has the lowest share value of the records p + 1 .. e as its
\* troughValue, and the date of the earliest record that has it as endDate
HasLowestTrough(x, records, p, e) ==
    /\ x.troughValue = records[TroughIndex(records, p, e)].shareValue
    /\ x.endDate = records[TroughIndex(records, p, e)].date

\* C28: for positive share values and strictly ascending dates, every episode
\* returned has 0 < troughValue < peakValue, the lowest share value of its
\* records as troughValue with the date of the earliest record attaining it
\* as endDate, an unrounded drawdown above 0.1 and below 100, durationDays of
\* 1 or more and, when closed, recoveryDays of 1 or more.
C28_EpisodeBoundsAndLowestTrough ==
    (ret.fn = "drawdown" /\ IsAscendingSeries(data)) =>
        \A k \in 1..Len(ret.value.allDrawdowns) :
            \E p \in 1..Len(data) : \E o \in (p + 1)..Len(data) : \E e \in o..Len(data) :
                /\ IsEpisodeOver(ret.value.allDrawdowns[k], data, p, o, e)
                /\ StaysAtOrBelowPeak(data, p, o, e)
                /\ HasEpisodeBounds(ret.value.allDrawdowns[k], data, p, e)
                /\ HasLowestTrough(ret.value.allDrawdowns[k], data, p, e)

\* the part of C28 that the code meets in floating point too: all but the
\* lowest trough
EpisodeBounds ==
    (ret.fn = "drawdown" /\ IsAscendingSeries(data)) =>
        \A k \in 1..Len(ret.value.allDrawdowns) :
            \E p \in 1..Len(data) : \E o \in (p + 1)..Len(data) : \E e \in o..Len(data) :
                /\ IsEpisodeOver(ret.value.allDrawdowns[k], data, p, o, e)
                /\ StaysAtOrBelowPeak(data, p, o, e)
                /\ HasEpisodeBounds(ret.value.allDrawdowns[k], data, p, e)

----------------------------------------------------------------------------
(* marketIndicesService: the alignment of one index with one portfolio date *)
(* in fetchMarketIndicesData.  Dates are local calendar fields as above;    *)
(* the fetched data of the index is a function from date keys YYYY-MM-DD to *)
(* numbers.                                                                 *)

\* the local calendar date that is `days` days after 1970-01-01
CivilFromDays(days) ==
    LET z   == days + 719468
        era == z \div 146097
        doe == z - era * 146097
        yoe == (doe - doe \div 1460 + doe \div 36524 - doe \div 146096) \div 365
        doy == doe - (365 * yoe + yoe \div 4 - yoe \div 100)
        mp  == (5 * doy + 2) \div 153
        m   == IF mp < 10 THEN mp + 3 ELSE mp - 9
    IN [null |-> FALSE,
        year |-> yoe + era * 400 + (IF m <= 2 THEN 1 ELSE 0),
        month |-> m - 1,
        date |-> doy - (153 * mp + 2) \div 5 + 1]

\* the days from 1970-01-01 to a local calendar date
DaysOf(date) == DaysFromCivil(date.year, date.month + 1, date.date)

\* Date.prototype.setDate: the day of the month is counted from the first
\* day of the month the date is in, whatever its sign
SetDate(searchDate, day) ==
    CivilFromDays(DaysFromCivil(searchDate.year, searchDate.month + 1, 1) + day - 1)

\* data[key], <<>> standing for undefined
ValueAt(indexData, key) ==
    IF key \in DOMAIN indexData THEN <<indexData[key]>> ELSE <<>>

\* the locals when the alignment of a date starts: value = data[apiDate]
LookBackInit(dateStr, dateObj, indexData) ==
    [dateStr |-> dateStr,
     currentDate |-> dateObj,
     data |-> indexData,
     searchDate |-> dateObj,
     i |-> 1,
     value |-> ValueAt(indexData, FormatDateForAPI(dateObj)),
     field |-> <<>>]

\* one iteration of the loop over i = 1..7, to the break or to the increment
LookBackIteration(st) ==
    LET searchDate == SetDate(st.searchDate, st.currentDate.date - st.i)
        found == ValueAt(st.data, FormatDateForAPI(searchDate))
    IN IF found # <<>>
       THEN [st EXCEPT !.searchDate = searchDate, !.value = found, !.i = 8]
       ELSE [st EXCEPT !.searchDate = searchDate, !.i = st.i + 1]

\* the days looked back
LookBackDays == 7

----------------------------------------------------------------------------
(* The alignment as a state machine *)

PortfolioDateTexts ==
    {"15/01/2014", "03/03/2014", "01/03/2014", "01/03/2012", "02/01/2014"}

\* the days before the portfolio date for which the index can have a value
DataOffsets == (0..9) \cup {29, 30, 31, 32}

MaxDataPoints == 2

\* the number stored for a day: the close of an index that rises by 1 a day
CloseOn(days) == Num(days - 10000)

\* the fetched data that has a value for the days `offsets` before the date
IndexDataFor(dateObj, offsets) ==
    LET keys == {FormatDateForAPI(CivilFromDays(DaysOf(dateObj) - k)) : k \in offsets}
    IN [key \in keys |->
           CloseOn(DaysOf(dateObj)
                   - (CHOOSE k \in offsets :
                         FormatDateForAPI(CivilFromDays(DaysOf(dateObj) - k)) = key))]

LookBackMachineInit ==
    /\ dateRollover = FALSE
    /\ mpc = "align"
    /\ mx = NoMarket
    /\ data = <<>>
    /\ csvText = ""
    /\ ppc = "off"
    /\ lines = <<>>
    /\ rowIdx = 0
    /\ errors = <<>>
    /\ warnings = <<>>
    /\ outcome = NoOutcome
    /\ epc = "off"
    /\ dd = NoLoop
    /\ ret = NoRet

\* lines 194-205: a valid date of the portfolio and the data of an index
AlignBegin ==
    /\ mpc = "align"
    /\ \E dateStr \in PortfolioDateTexts :
       \E offsets \in {o \in SUBSET DataOffsets : Cardinality(o) <= MaxDataPoints} :
          /\ ~ParsePortfolioDate(dateStr).null
          /\ mx' = LookBackInit(dateStr, ParsePortfolioDate(dateStr),
                                IndexDataFor(ParsePortfolioDate(dateStr), offsets))
    /\ mpc' = IF mx'.value = <<>> THEN "lookback" ELSE "assign"
    /\ UNCHANGED <<dateRollover, parserVars, engineVars>>

\* lines 208-216: one iteration
LookBackStep ==
    /\ mpc = "lookback"
    /\ mx.i <= LookBackDays
    /\ mx' = LookBackIteration(mx)
    /\ UNCHANGED <<mpc, dateRollover, parserVars, engineVars>>

\* lines 208, 214: the loop is left
LookBackEnd ==
    /\ mpc = "lookback"
    /\ mx.i > LookBackDays
    /\ mpc' = "assign"
    /\ UNCHANGED <<mx, dateRollover, parserVars, engineVars>>

\* lines 219-223: the field of the index is set, or left unset with a warning
AlignAssign ==
    /\ mpc = "assign"
    /\ mx' = [mx EXCEPT !.field = mx.value]
    /\ mpc' = "aligned"
    /\ UNCHANGED <<dateRollover, parserVars, engineVars>>

LookBackNext ==
    \/ AlignBegin
    \/ LookBackStep
    \/ LookBackEnd
    \/ AlignAssign

SpecLookBack == LookBackMachineInit /\ [][LookBackNext]_vars

----------------------------------------------------------------------------
(* Properties of the alignment, checked under SpecLookBack *)

\* the key of the day k days before the date
KeyBefore(dateObj, k) == FormatDateForAPI(CivilFromDays(DaysOf(dateObj) - k))

\* the days 0..7 before the date that have a value
DaysWithData(dateObj, indexData) ==
    {k \in 0..7 : KeyBefore(dateObj, k) \in DOMAIN indexData}

\* the least element of a set of numbers that is not empty
Least(S) == CHOOSE k \in S : \A l \in S : k <= l

\* C24: the value used for a portfolio date is the one of the date itself
\* or, if it has none, of the closest of the 1..7 calendar days before it that
\* has one, also across the start of the month; with none the field is unset.
C24_ClosestPreviousDay ==
    mpc = "aligned" =>
        IF DaysWithData(mx.currentDate, mx.data) = {}
        THEN mx.field = <<>>
        ELSE mx.field = <<mx.data[KeyBefore(mx.currentDate,
                                            Least(DaysWithData(mx.currentDate, mx.data)))]>>

\* the part of C24 that the code meets: the look-back within the month of
\* the portfolio date and one step beyond its first day
ClosestPreviousDayWithinMonth ==
    (mpc = "aligned" /\ \A k \in DaysWithData(mx.currentDate, mx.data) :
                            k <= mx.currentDate.date) =>
        IF DaysWithData(mx.currentDate, mx.data) = {}
        THEN TRUE
        ELSE mx.field = <<mx.data[KeyBefore(mx.currentDate,
                                            Least(DaysWithData(mx.currentDate, mx.data)))]>>

----------------------------------------------------------------------------
(* marketIndicesService: fetchIndexData, one call with retryCount 0 and the *)
(* calls it makes to itself.  The network is the environment: it decides    *)
(* whether and how a fetch and the reading of a response body settle.       *)

PROXY_URLS ==
    <<"https://api.allorigins.win/raw?url=",
      "https://corsproxy.io/?",
      "https://cors-anywhere.herokuapp.com/">>

\* a close of the response: null, a number, or a string holding a number
\* (isNaN is false for it and it has no toFixed)
CloseKinds == {"null", "number", "string"}

MaxCloses == 2

\* what response.json() can give: a parse failure, the JSON null, an object
\* without chart.result, a result without timestamp or close, or a result
\* with closes
ResponseBodies ==
    {[kind |-> k, closes |-> <<>>] : k \in {"notJson", "null", "noChart", "noStructure"}}
    \cup {[kind |-> "closes", closes |-> c] : c \in SeqsUpTo(CloseKinds, MaxCloses)}

\* lines 104-113: the dataset of a sequence of closes, as the set of the
\* positions it has a key for; <<>> when toFixed throws
HistoricalData(closes) ==
    IF \E i \in 1..Len(closes) : closes[i] = "string"
    THEN <<>>
    ELSE <<{i \in 1..Len(closes) : closes[i] = "number"}>>

\* lines 86-117: what the try block does with a body: <<dataset>> returned,
\* or <<>> for an exception
DatasetOfBody(body) ==
    CASE body.kind \in {"notJson", "null"} -> <<>>
      [] body.kind \in {"noChart", "noStructure"} -> <<{}>>
      [] OTHER -> HistoricalData(body.closes)

FetchCalled ==
    [retryCount |-> 0, proxies |-> <<>>, log |-> <<>>, settled |-> <<>>]

\* lines 119-132: the catch block
Caught(st, error) ==
    LET logged == [st EXCEPT !.log = Append(st.log, error)]
    IN IF st.retryCount < Len(PROXY_URLS) - 1
       THEN [pc |-> "waiting", st |-> logged]
       ELSE [pc |-> "resolved",
             st |-> [logged EXCEPT !.settled = <<[kind |-> "fulfilled", value |-> {}]>>]]

FetchInit ==
    /\ dateRollover = FALSE
    /\ mpc = "called"
    /\ mx = FetchCalled
    /\ data = <<>>
    /\ csvText = ""
    /\ ppc = "off"
    /\ lines = <<>>
    /\ rowIdx = 0
    /\ errors = <<>>
    /\ warnings = <<>>
    /\ outcome = NoOutcome
    /\ epc = "off"
    /\ dd = NoLoop
    /\ ret = NoRet

\* lines 55-78: the request is sent through the proxy of this attempt
FetchSend ==
    /\ mpc = "called"
    /\ mx' = [mx EXCEPT !.proxies =
                 Append(mx.proxies, PROXY_URLS[(mx.retryCount % Len(PROXY_URLS)) + 1])]
    /\ mpc' = "fetching"
    /\ UNCHANGED <<dateRollover, parserVars, engineVars>>

\* lines 70-83: the fetch settles: rejected, or a response that is ok or not
FetchSettles ==
    /\ mpc = "fetching"
    /\ \E answer \in {"rejected", "notOk", "ok"} :
          IF answer = "ok"
          THEN /\ mpc' = "reading"
               /\ mx' = mx
          ELSE /\ mpc' = Caught(mx, answer).pc
               /\ mx' = Caught(mx, answer).st
    /\ UNCHANGED <<dateRollover, parserVars, engineVars>>

\* lines 85-117: response.json() settles and the body is processed
BodySettles ==
    /\ mpc = "reading"
    /\ \E body \in ResponseBodies :
          IF DatasetOfBody(body) = <<>>
          THEN /\ mpc' = Caught(mx, body.kind).pc
               /\ mx' = Caught(mx, body.kind).st
          ELSE /\ mpc' = "resolved"
               /\ mx' = [mx EXCEPT !.settled =
                            <<[kind |-> "fulfilled", value |-> DatasetOfBody(body)[1]]>>]
    /\ UNCHANGED <<dateRollover, parserVars, engineVars>>

\* lines 125-126: the second has passed, fetchIndexData calls itself
RetryTimerFires ==
    /\ mpc = "waiting"
    /\ mx' = [mx EXCEPT !.retryCount = mx.retryCount + 1]
    /\ mpc' = "called"
    /\ UNCHANGED <<dateRollover, parserVars, engineVars>>

FetchNext ==
    \/ FetchSend
    \/ FetchSettles
    \/ BodySettles
    \/ RetryTimerFires

\* The code's own steps are taken when they can be: the request is sent and
\* the timer of setTimeout fires.  Nothing makes the network answer: the
\* signal given to fetch belongs to a controller that is never aborted.
SpecFetch ==
    /\ FetchInit
    /\ [][FetchNext]_vars
    /\ WF_vars(FetchSend)
    /\ WF_vars(RetryTimerFires)

\* the same with a network that settles every fetch and every body
SpecFetchAnswered ==
    /\ SpecFetch
    /\ WF_vars(FetchSettles)
    /\ WF_vars(BodySettles)

----------------------------------------------------------------------------
(* Properties of fetchIndexData *)

\* at most three attempts, attempt k through proxy k, no proxy twice
AttemptsUseProxiesInOrder ==
    /\ Len(mx.proxies) <= 3
    /\ \A k \in 1..Len(mx.proxies) : mx.proxies[k] = PROXY_URLS[k]
    /\ \A j, k \in 1..Len(mx.proxies) : mx.proxies[j] = mx.proxies[k] => j = k

\* every attempt but the one under way has failed, and the call is settled
\* by the first attempt that does not fail or by the failure of the third
RetriesOnlyAfterFailure ==
    /\ mpc = "called" => Len(mx.log) = Len(mx.proxies)
    /\ mpc \in {"fetching", "reading"} => Len(mx.log) = Len(mx.proxies) - 1
    /\ mpc = "waiting" => Len(mx.log) = Len(mx.proxies) /\ Len(mx.log) < 3
    /\ mpc = "resolved" =>
          \/ Len(mx.log) = Len(mx.proxies) - 1
          \/ Len(mx.log) = 3 /\ Len(mx.proxies) = 3 /\ mx.settled[1].value = {}

\* the promise is fulfilled when settled, and only then
NeverRejects ==
    /\ mpc = "resolved" <=> mx.settled # <<>>
    /\ mx.settled # <<>> => mx.settled[1].kind = "fulfilled"

FetchSafety ==
    /\ AttemptsUseProxiesInOrder
    /\ RetriesOnlyAfterFailure
    /\ NeverRejects

\* C29: fetchIndexData always terminates and never rejects: at most 3
\* attempts, attempt k through proxy k, no proxy twice, a retry only after a
\* failed attempt, settled by the first attempt that does not fail, and
\* resolved with the empty dataset when all three fail.
C29_FetchTerminatesWithinThreeAttempts ==
    /\ []FetchSafety
    /\ <>(mpc = "resolved")

\* with a network that settles every request the call is resolved
ResolvedWhenAnswered == <>(mpc = "resolved")

----------------------------------------------------------------------------
(* MarketIndicesExport: the component's state, the attempts started by the *)
(* button and the timers they leave behind.  handleGenerateExport is made   *)
(* anew by every render and sees the status of the render that made it.     *)

MaxAttempts == 3

\* lines 20-24: the state after the first render
Mounted ==
    [isGenerating |-> FALSE,
     progress |-> 0,
     status |-> "idle",
     errorMessage |-> "",
     attempts |-> 0,
     setBy |-> 0,
     timers |-> <<>>]

\* lines 27-38: the handler up to its await; `seen` is the status of the
\* render whose handler the click runs
Started(st) ==
    [st EXCEPT !.isGenerating = TRUE,
               !.status = "generating",
               !.errorMessage = "",
               !.progress = 30,
               !.attempts = st.attempts + 1,
               !.setBy = st.attempts + 1,
               !.timers = Append(st.timers,
                                 [attempt |-> st.attempts + 1,
                                  seen |-> st.status,
                                  outcome |-> "pending"])]

\* the timers with the outcome of an attempt filled in
WithOutcome(timers, attempt, ended) ==
    [k \in 1..Len(timers) |->
        IF timers[k].attempt = attempt
        THEN [timers[k] EXCEPT !.outcome = ended]
        ELSE timers[k]]

\* lines 38-60: the handler after its await.  ending is "success", "rejected"
\* (processDefaultPortfolioSnapshot rejects) or "downloadThrows"
Finished(st, attempt, ending) ==
    LET done == [st EXCEPT !.isGenerating = FALSE,
                           !.setBy = attempt,
                           !.timers = WithOutcome(st.timers, attempt,
                                                  IF ending = "success"
                                                  THEN "success" ELSE "error")]
    IN CASE ending = "success" ->
              [done EXCEPT !.progress = 100, !.status = "success"]
         [] ending = "rejected" ->
              [done EXCEPT !.status = "error", !.errorMessage = "rejected"]
         [] OTHER ->
              [done EXCEPT !.progress = 90, !.status = "error",
                           !.errorMessage = "download"]

\* lines 56-59: the callback of setTimeout
TimerCallback(st, timer) ==
    [st EXCEPT !.progress = 0,
               !.status = IF timer.seen = "success" THEN "idle" ELSE st.status,
               !.timers = Tail(st.timers)]

ExportInit ==
    /\ dateRollover = FALSE
    /\ mpc = "mounted"
    /\ mx = Mounted
    /\ data = <<>>
    /\ csvText = ""
    /\ ppc = "off"
    /\ lines = <<>>
    /\ rowIdx = 0
    /\ errors = <<>>
    /\ warnings = <<>>
    /\ outcome = NoOutcome
    /\ epc = "off"
    /\ dd = NoLoop
    /\ ret = NoRet

\* line 161: the button is enabled while no attempt is being made
Click ==
    /\ mpc = "mounted"
    /\ ~mx.isGenerating
    /\ mx.attempts < MaxAttempts
    /\ mx' = Started(mx)
    /\ UNCHANGED <<mpc, dateRollover, parserVars, engineVars>>

\* lines 38-56: processDefaultPortfolioSnapshot settles and the handler ends
AttemptSettles ==
    /\ mpc = "mounted"
    /\ mx.isGenerating
    /\ \E ending \in {"success", "rejected", "downloadThrows"} :
          mx' = Finished(mx, mx.attempts, ending)
    /\ UNCHANGED <<mpc, dateRollover, parserVars, engineVars>>

\* lines 56-59: the oldest timer of a finished attempt fires (all timers
\* have the same delay)
TimerFires ==
    /\ mpc = "mounted"
    /\ mx.timers # <<>>
    /\ Head(mx.timers).outcome # "pending"
    /\ mx' = TimerCallback(mx, Head(mx.timers))
    /\ UNCHANGED <<mpc, dateRollover, parserVars, engineVars>>

ExportNext ==
    \/ Click
    \/ AttemptSettles
    \/ TimerFires

SpecExport == ExportInit /\ [][ExportNext]_vars

----------------------------------------------------------------------------
(* Properties of the delayed reset *)

\* a step in which the timer of an attempt fires
TimerFiredStep ==
    /\ mpc = "mounted"
    /\ mx.timers # <<>>
    /\ mx'.timers = Tail(mx.timers)

\* C30: the delayed reset of an attempt returns status to 'idle' if and only
\* if that attempt ended in success: a 'success' status is cleared by the
\* timer of the attempt that set it, a timer of an attempt that ended in
\* error changes nothing, and an 'error' status is never changed by a timer.
C30_ResetIffSuccess ==
    [][TimerFiredStep =>
          /\ (/\ Head(mx.timers).outcome = "success"
              /\ mx.status = "success"
              /\ mx.setBy = Head(mx.timers).attempt) => mx'.status = "idle"
          /\ Head(mx.timers).outcome = "error" => mx'.status = mx.status
          /\ mx.status = "error" => mx'.status = "error"]_vars

\* what the code does instead: a timer resets the status exactly when the
\* status was 'success' at the click that started its attempt
ResetIffSuccessSeenAtClick ==
    [][TimerFiredStep =>
          mx'.status = IF Head(mx.timers).seen = "success" THEN "idle" ELSE mx.status]_vars

====
